---- MODULE Spec2Model ----
(***************************************************************************)
(* Leak / exploit analysis of an annotated poker decision tree.            *)
(*                                                                         *)
(* The model follows the pipeline of src/app/page.tsx and                  *)
(* src/components/LeaksTable.tsx: a spot (base tree, pot, combos) and the  *)
(* GTO / player profiles are loaded, applyProfilesToTree resolves the      *)
(* per-node frequencies, and findLeaks and findExploits traverse the       *)
(* processed tree.                                                         *)
(*                                                                         *)
(* Numbers: the source computes in IEEE doubles; the model computes in     *)
(* exact rationals <<numerator, denominator>> kept in lowest terms, so     *)
(* that two equal values are equal as TLA+ values.                         *)
(* Optional values (sizing?, weakPercent?) are records [def, v]; `None` is *)
(* JavaScript's undefined.                                                 *)
(* Trees: nodes are numbered 1..n, node 1 is the root, parent[c] < c, and  *)
(* the children of a node are taken in increasing number (the declared     *)
(* order of the children array).  A node's number is its id.               *)
(***************************************************************************)
EXTENDS Integers, Sequences, FiniteSets, TLC

VARIABLES
  spot,              \* Spot: the base tree with potSize, oopCombos, ipCombos
  gtoProfiles,       \* ProfileMap of the GTO profiles: player -> nodeData
  playerProfiles,    \* ProfileMap of the active profiles: player -> nodeData
  hideRootFromLine,  \* LeaksTable prop
  processedTree,     \* result of applyProfilesToTree, <<>> before it ran
  allLeaks,          \* result of findLeaks, <<>> before it ran
  allExploits,       \* result of findExploits, <<>> before it ran
  nodeMap,           \* Map id -> node built by buildNodeAndParentMaps, empty before
  parentMap,         \* Map id -> parent node (NoNode for null), empty before
  pc                 \* position in the pipeline

vars == <<spot, gtoProfiles, playerProfiles, hideRootFromLine,
          processedTree, allLeaks, allExploits, nodeMap, parentMap, pc>>

Players == {"OOP", "IP"}
Actions == {"bet", "check", "raise", "fold", "call"}
Streets == {"flop", "turn", "river"}

actionLabels == [bet |-> "B", check |-> "X", raise |-> "R", fold |-> "F", call |-> "C"]

-----------------------------------------------------------------------------
(* Exact rational arithmetic standing for the source's number operations.  *)

RECURSIVE Gcd(_, _)
Gcd(a, b) == IF b = 0 THEN a ELSE Gcd(b, a % b)

AbsInt(x) == IF x < 0 THEN -x ELSE x

Rat(n, d) ==
  LET g == Gcd(AbsInt(n), AbsInt(d))
      s == IF d < 0 THEN -1 ELSE 1
  IN  <<(s * n) \div g, (s * d) \div g>>

Num(i) == <<i, 1>>
Zero == Num(0)
One == Num(1)

Add(a, b) == Rat(a[1] * b[2] + b[1] * a[2], a[2] * b[2])
Sub(a, b) == Rat(a[1] * b[2] - b[1] * a[2], a[2] * b[2])
Mul(a, b) == Rat(a[1] * b[1], a[2] * b[2])
Div(a, b) == Rat(a[1] * b[2], a[2] * b[1])
Lt(a, b) == a[1] * b[2] < b[1] * a[2]
Gt(a, b) == Lt(b, a)
Le(a, b) == ~Lt(b, a)
MathAbs(a) == <<AbsInt(a[1]), a[2]>>
\* Math.round: the nearest integer, halves rounded up
MathRound(a) == Num((2 * a[1] + a[2]) \div (2 * a[2]))
\* `${number}` in a template string
NumStr(a) == IF a[2] = 1 THEN ToString(a[1]) ELSE ToString(a[1]) \o "/" \o ToString(a[2])

Some(v) == [def |-> TRUE, v |-> v]
None == [def |-> FALSE, v |-> Zero]

RECURSIVE FlattenSeq(_)
RECURSIVE firstFloatEV(_, _)
FlattenSeq(ss) == IF ss = <<>> THEN <<>> ELSE Head(ss) \o FlattenSeq(Tail(ss))

-----------------------------------------------------------------------------
(* The tree                                                                *)

Root == 1
NodeIds == 1..spot.n

children(n) == SelectSeq([i \in 1..spot.n |-> i], LAMBDA c : spot.parent[c] = n)

\* a TreeNode: the BaseTreeNode fields of the spot and the resolved frequencies
Node(n) ==
  [id |-> n,
   action |-> spot.action[n],
   player |-> spot.player[n],
   street |-> spot.street[n],
   sizing |-> spot.sizing[n],
   frequency |-> processedTree[n].frequency,
   gtoFrequency |-> processedTree[n].gtoFrequency,
   weakPercent |-> processedTree[n].weakPercent,
   gtoWeakPercent |-> processedTree[n].gtoWeakPercent]

\* a profile's nodeData[id]: an entry {frequency, weakPercent?} or nothing
Absent == [present |-> FALSE, frequency |-> Zero, weakPercent |-> None]
Entry(f, w) == [present |-> TRUE, frequency |-> f, weakPercent |-> w]

-----------------------------------------------------------------------------
(* applyProfilesToTree                                                     *)

\* processNode defaulting an unset frequency by itself instead of inheriting GTO's
processNodeOwnDefault(n) ==
  LET gtoData == gtoProfiles[spot.player[n]][n]
      playerData == playerProfiles[spot.player[n]][n]
      gtoFrequency == IF gtoData.present THEN gtoData.frequency ELSE One
      gtoWeakPercent == IF gtoData.present THEN gtoData.weakPercent ELSE None
      frequency == IF playerData.present THEN playerData.frequency ELSE One
      weakPercent == IF playerData.present /\ playerData.weakPercent.def
                     THEN playerData.weakPercent ELSE gtoWeakPercent
  IN  [frequency |-> frequency,
       gtoFrequency |-> gtoFrequency,
       weakPercent |-> weakPercent,
       gtoWeakPercent |-> gtoWeakPercent]

\* processNode taking weakPercent from the active entry whenever there is one
processNodeWeakOfEntry(n) ==
  LET gtoData == gtoProfiles[spot.player[n]][n]
      playerData == playerProfiles[spot.player[n]][n]
      gtoFrequency == IF gtoData.present THEN gtoData.frequency ELSE One
      gtoWeakPercent == IF gtoData.present THEN gtoData.weakPercent ELSE None
      frequency == IF playerData.present THEN playerData.frequency ELSE gtoFrequency
      weakPercent == IF playerData.present THEN playerData.weakPercent ELSE gtoWeakPercent
  IN  [frequency |-> frequency,
       gtoFrequency |-> gtoFrequency,
       weakPercent |-> weakPercent,
       gtoWeakPercent |-> gtoWeakPercent]

processNode(n) ==
  LET gtoData == gtoProfiles[spot.player[n]][n]
      playerData == playerProfiles[spot.player[n]][n]
      gtoFrequency == IF gtoData.present THEN gtoData.frequency ELSE One
      gtoWeakPercent == IF gtoData.present THEN gtoData.weakPercent ELSE None
      frequency == IF playerData.present THEN playerData.frequency ELSE gtoFrequency
      weakPercent == IF playerData.present /\ playerData.weakPercent.def
                     THEN playerData.weakPercent ELSE gtoWeakPercent
  IN  [frequency |-> frequency,
       gtoFrequency |-> gtoFrequency,
       weakPercent |-> weakPercent,
       gtoWeakPercent |-> gtoWeakPercent]

applyProfilesToTree == [n \in 1..spot.n |-> processNode(n)]

-----------------------------------------------------------------------------
(* calculatePot, addToPath, formatPath                                     *)

\* sizing || dflt : undefined and 0 are both falsy
OrDefault(sizing, dflt) == IF sizing.def /\ sizing.v # Zero THEN sizing.v ELSE dflt

\* calculatePot with a call that leaves the bet it has paid still to be faced
calculatePotCallKeepsBet(action, pot, facingBet, sizing) ==
  CASE action = "bet" ->
         LET betAmount == Div(Mul(pot, OrDefault(sizing, Num(50))), Num(100))
         IN  [newPot |-> Add(pot, betAmount), newFacingBet |-> betAmount]
    [] action = "raise" ->
         LET multiplier == OrDefault(sizing, Num(3))
             raiseTotal == Mul(multiplier, facingBet)
             newFacing == Sub(raiseTotal, facingBet)
         IN  [newPot |-> Add(pot, raiseTotal), newFacingBet |-> newFacing]
    [] action = "call" ->
         [newPot |-> Add(pot, facingBet), newFacingBet |-> facingBet]
    [] OTHER ->
         [newPot |-> pot, newFacingBet |-> Zero]

\* calculatePot with a bet that is faced but not added to the pot
calculatePotBetOutsidePot(action, pot, facingBet, sizing) ==
  CASE action = "bet" ->
         LET betAmount == Div(Mul(pot, OrDefault(sizing, Num(50))), Num(100))
         IN  [newPot |-> pot, newFacingBet |-> betAmount]
    [] action = "raise" ->
         LET multiplier == OrDefault(sizing, Num(3))
             raiseTotal == Mul(multiplier, facingBet)
             newFacing == Sub(raiseTotal, facingBet)
         IN  [newPot |-> Add(pot, raiseTotal), newFacingBet |-> newFacing]
    [] action = "call" ->
         [newPot |-> Add(pot, facingBet), newFacingBet |-> Zero]
    [] OTHER ->
         [newPot |-> pot, newFacingBet |-> Zero]

\* calculatePot with a fold that takes the bet it faces back out of the pot
calculatePotFoldReturnsBet(action, pot, facingBet, sizing) ==
  CASE action = "bet" ->
         LET betAmount == Div(Mul(pot, OrDefault(sizing, Num(50))), Num(100))
         IN  [newPot |-> Add(pot, betAmount), newFacingBet |-> betAmount]
    [] action = "raise" ->
         LET multiplier == OrDefault(sizing, Num(3))
             raiseTotal == Mul(multiplier, facingBet)
             newFacing == Sub(raiseTotal, facingBet)
         IN  [newPot |-> Add(pot, raiseTotal), newFacingBet |-> newFacing]
    [] action = "call" ->
         [newPot |-> Add(pot, facingBet), newFacingBet |-> Zero]
    [] action = "fold" ->
         [newPot |-> Sub(pot, facingBet), newFacingBet |-> Zero]
    [] OTHER ->
         [newPot |-> pot, newFacingBet |-> Zero]

calculatePot(action, pot, facingBet, sizing) ==
  CASE action = "bet" ->
         LET betAmount == Div(Mul(pot, OrDefault(sizing, Num(50))), Num(100))
         IN  [newPot |-> Add(pot, betAmount), newFacingBet |-> betAmount]
    [] action = "raise" ->
         LET multiplier == OrDefault(sizing, Num(3))
             raiseTotal == Mul(multiplier, facingBet)
             newFacing == Sub(raiseTotal, facingBet)
         IN  [newPot |-> Add(pot, raiseTotal), newFacingBet |-> newFacing]
    [] action = "call" ->
         [newPot |-> Add(pot, facingBet), newFacingBet |-> Zero]
    [] OTHER ->
         [newPot |-> pot, newFacingBet |-> Zero]

\* addToPath opening a new segment for every label, whatever the street
addToPathNewSegment(path, street, action) ==
  Append(path, [street |-> street, actions |-> <<action>>])

addToPath(path, street, action) ==
  IF Len(path) > 0 /\ path[Len(path)].street = street
  THEN LET last == path[Len(path)]
       IN  Append(SubSeq(path, 1, Len(path) - 1),
                  [street |-> street, actions |-> Append(last.actions, action)])
  ELSE Append(path, [street |-> street, actions |-> <<action>>])

RECURSIVE JoinStr(_, _)
JoinStr(strs, sep) ==
  IF strs = <<>> THEN ""
  ELSE IF Len(strs) = 1 THEN strs[1]
  ELSE strs[1] \o sep \o JoinStr(Tail(strs), sep)

formatPath(path) ==
  JoinStr([i \in 1..Len(path) |-> JoinStr(path[i].actions, "")], " → ")

-----------------------------------------------------------------------------
(* The prologue shared by findLeaks and findExploits: the values computed  *)
(* from the call's arguments before any finding is looked for.  A frame    *)
(* fr holds the arguments of one recursive call: oopPath, ipPath,          *)
(* parentReach, pot, facingBet, parentOopCombos, parentIpCombos, isRoot    *)
(* (and opponentOverbluffs in findExploits).                               *)

\* nodeDisplayLabel giving pot odds to a call that faces no bet
nodeDisplayLabelAnyCall(node, pot, facingBet) ==
  LET nodeLabel == actionLabels[node.action]
      hasSizing == node.action \in {"bet", "raise"} /\ node.sizing.def
      hasCallSizing == node.action = "call" /\ Gt(pot, facingBet)
      callSizing == MathRound(Mul(Div(facingBet, Sub(pot, facingBet)), Num(100)))
  IN  IF hasSizing
      THEN IF node.action = "raise"
           THEN nodeLabel \o NumStr(node.sizing.v) \o "X"
           ELSE nodeLabel \o NumStr(node.sizing.v)
      ELSE IF hasCallSizing THEN nodeLabel \o NumStr(callSizing)
      ELSE nodeLabel

nodeDisplayLabel(node, pot, facingBet) ==
  LET nodeLabel == actionLabels[node.action]
      hasSizing == node.action \in {"bet", "raise"} /\ node.sizing.def
      hasCallSizing == node.action = "call" /\ Gt(facingBet, Zero) /\ Gt(pot, facingBet)
      callSizing == MathRound(Mul(Div(facingBet, Sub(pot, facingBet)), Num(100)))
  IN  IF hasSizing
      THEN IF node.action = "raise"
           THEN nodeLabel \o NumStr(node.sizing.v) \o "X"
           ELSE nodeLabel \o NumStr(node.sizing.v)
      ELSE IF hasCallSizing THEN nodeLabel \o NumStr(callSizing)
      ELSE nodeLabel

\* childReach multiplying by the GTO frequency instead of the actual one
childReachOfGto(parentReach, node) == Mul(parentReach, node.gtoFrequency)

childReachOf(parentReach, node) == Mul(parentReach, node.frequency)

\* nodeLocals shrinking both players' combos at every node
nodeLocalsSharedCombos(n, fr) ==
  LET node == Node(n)
      cp == calculatePot(node.action, fr.pot, fr.facingBet, node.sizing)
      oopCombos == Mul(fr.parentOopCombos, node.frequency)
      ipCombos == Mul(fr.parentIpCombos, node.frequency)
      label == nodeDisplayLabel(node, fr.pot, fr.facingBet)
      includeInPath == ~(fr.isRoot /\ hideRootFromLine)
      newOopPath == IF node.player = "OOP" /\ includeInPath
                    THEN addToPath(fr.oopPath, node.street, label) ELSE fr.oopPath
      newIpPath == IF node.player = "IP" /\ includeInPath
                   THEN addToPath(fr.ipPath, node.street, label) ELSE fr.ipPath
  IN  [reach |-> fr.parentReach,
       childReach |-> childReachOf(fr.parentReach, node),
       oopCombos |-> oopCombos,
       ipCombos |-> ipCombos,
       actingCombos |-> IF node.player = "OOP" THEN oopCombos ELSE ipCombos,
       newPot |-> cp.newPot,
       newFacingBet |-> cp.newFacingBet,
       newOopPath |-> newOopPath,
       newIpPath |-> newIpPath]

\* nodeLocals taking the pot as it was before the node acted
nodeLocalsPotBefore(n, fr) ==
  LET node == Node(n)
      cp == calculatePot(node.action, fr.pot, fr.facingBet, node.sizing)
      oopCombos == IF node.player = "OOP"
                   THEN Mul(fr.parentOopCombos, node.frequency) ELSE fr.parentOopCombos
      ipCombos == IF node.player = "IP"
                  THEN Mul(fr.parentIpCombos, node.frequency) ELSE fr.parentIpCombos
      label == nodeDisplayLabel(node, fr.pot, fr.facingBet)
      includeInPath == ~(fr.isRoot /\ hideRootFromLine)
      newOopPath == IF node.player = "OOP" /\ includeInPath
                    THEN addToPath(fr.oopPath, node.street, label) ELSE fr.oopPath
      newIpPath == IF node.player = "IP" /\ includeInPath
                   THEN addToPath(fr.ipPath, node.street, label) ELSE fr.ipPath
  IN  [reach |-> fr.parentReach,
       childReach |-> childReachOf(fr.parentReach, node),
       oopCombos |-> oopCombos,
       ipCombos |-> ipCombos,
       actingCombos |-> IF node.player = "OOP" THEN oopCombos ELSE ipCombos,
       newPot |-> fr.pot,
       newFacingBet |-> cp.newFacingBet,
       newOopPath |-> newOopPath,
       newIpPath |-> newIpPath]

nodeLocals(n, fr) ==
  LET node == Node(n)
      cp == calculatePot(node.action, fr.pot, fr.facingBet, node.sizing)
      oopCombos == IF node.player = "OOP"
                   THEN Mul(fr.parentOopCombos, node.frequency) ELSE fr.parentOopCombos
      ipCombos == IF node.player = "IP"
                  THEN Mul(fr.parentIpCombos, node.frequency) ELSE fr.parentIpCombos
      label == nodeDisplayLabel(node, fr.pot, fr.facingBet)
      includeInPath == ~(fr.isRoot /\ hideRootFromLine)
      newOopPath == IF node.player = "OOP" /\ includeInPath
                    THEN addToPath(fr.oopPath, node.street, label) ELSE fr.oopPath
      newIpPath == IF node.player = "IP" /\ includeInPath
                   THEN addToPath(fr.ipPath, node.street, label) ELSE fr.ipPath
  IN  [reach |-> fr.parentReach,
       childReach |-> childReachOf(fr.parentReach, node),
       oopCombos |-> oopCombos,
       ipCombos |-> ipCombos,
       actingCombos |-> IF node.player = "OOP" THEN oopCombos ELSE ipCombos,
       newPot |-> cp.newPot,
       newFacingBet |-> cp.newFacingBet,
       newOopPath |-> newOopPath,
       newIpPath |-> newIpPath]

\* relDiff without the guard: the division made for every baseline
relDiffUnguarded(diff, baseline) == Div(diff, baseline)

\* relDiff: diff / baseline when the baseline is positive, else 0
relDiffOf(diff, baseline) == IF Gt(baseline, Zero) THEN Div(diff, baseline) ELSE Zero

-----------------------------------------------------------------------------
(* findLeaks                                                               *)

Leak(node, L, path, player, type, frequency, gtoFrequency, diff, potSize, combos, relDiff, floatEV) ==
  [nodeId |-> node.id, path |-> path, player |-> player, type |-> type,
   frequency |-> frequency, gtoFrequency |-> gtoFrequency, diff |-> diff,
   reach |-> L.reach, street |-> node.street, potSize |-> potSize,
   combos |-> combos, relDiff |-> relDiff, floatEV |-> floatEV]

\* foldLeaks with >= for > : a fold at its GTO frequency reported as an overfold
foldLeaksAtEqual(n, L) ==
  LET node == Node(n)
      playerPath == IF node.player = "OOP" THEN L.newOopPath ELSE L.newIpPath
  IN  IF node.action = "fold"
      THEN IF ~Lt(node.frequency, node.gtoFrequency)
           THEN <<Leak(node, L, formatPath(playerPath), node.player, "overfold",
                       node.frequency, node.gtoFrequency,
                       Sub(node.frequency, node.gtoFrequency), L.newPot, L.actingCombos,
                       relDiffOf(Sub(node.frequency, node.gtoFrequency), node.gtoFrequency),
                       None)>>
           ELSE <<Leak(node, L, formatPath(playerPath), node.player, "underfold",
                       node.frequency, node.gtoFrequency,
                       Sub(node.gtoFrequency, node.frequency), L.newPot, L.actingCombos,
                       relDiffOf(Sub(node.gtoFrequency, node.frequency), node.gtoFrequency),
                       None)>>
      ELSE <<>>

\* foldLeaks comparing the frequencies of checks as well
foldLeaksOfChecks(n, L) ==
  LET node == Node(n)
      playerPath == IF node.player = "OOP" THEN L.newOopPath ELSE L.newIpPath
  IN  IF node.action \in {"fold", "check"}
      THEN IF Gt(node.frequency, node.gtoFrequency)
           THEN <<Leak(node, L, formatPath(playerPath), node.player, "overfold",
                       node.frequency, node.gtoFrequency,
                       Sub(node.frequency, node.gtoFrequency), L.newPot, L.actingCombos,
                       relDiffOf(Sub(node.frequency, node.gtoFrequency), node.gtoFrequency),
                       None)>>
           ELSE IF Lt(node.frequency, node.gtoFrequency)
           THEN <<Leak(node, L, formatPath(playerPath), node.player, "underfold",
                       node.frequency, node.gtoFrequency,
                       Sub(node.gtoFrequency, node.frequency), L.newPot, L.actingCombos,
                       relDiffOf(Sub(node.gtoFrequency, node.frequency), node.gtoFrequency),
                       None)>>
           ELSE <<>>
      ELSE <<>>

foldLeaks(n, L) ==
  LET node == Node(n)
      playerPath == IF node.player = "OOP" THEN L.newOopPath ELSE L.newIpPath
  IN  IF node.action = "fold"
      THEN IF Gt(node.frequency, node.gtoFrequency)
           THEN <<Leak(node, L, formatPath(playerPath), node.player, "overfold",
                       node.frequency, node.gtoFrequency,
                       Sub(node.frequency, node.gtoFrequency), L.newPot, L.actingCombos,
                       relDiffOf(Sub(node.frequency, node.gtoFrequency), node.gtoFrequency),
                       None)>>
           ELSE IF Lt(node.frequency, node.gtoFrequency)
           THEN <<Leak(node, L, formatPath(playerPath), node.player, "underfold",
                       node.frequency, node.gtoFrequency,
                       Sub(node.gtoFrequency, node.frequency), L.newPot, L.actingCombos,
                       relDiffOf(Sub(node.gtoFrequency, node.frequency), node.gtoFrequency),
                       None)>>
           ELSE <<>>
      ELSE <<>>

\* bluffLeaks deciding over / under from the frequencies instead of the weak percentages
bluffLeaksByFrequency(n, L) ==
  LET node == Node(n)
      playerPath == IF node.player = "OOP" THEN L.newOopPath ELSE L.newIpPath
  IN  IF /\ node.action \in {"bet", "raise"}
         /\ node.weakPercent.def
         /\ node.gtoWeakPercent.def
         /\ node.weakPercent.v # node.gtoWeakPercent.v
      THEN LET isOver == Gt(node.frequency, node.gtoFrequency)
               absDiff == MathAbs(Sub(node.weakPercent.v, node.gtoWeakPercent.v))
           IN  <<Leak(node, L, formatPath(playerPath), node.player,
                      IF isOver THEN "overbluff" ELSE "underbluff",
                      node.weakPercent.v, node.gtoWeakPercent.v, absDiff,
                      L.newPot, L.actingCombos,
                      relDiffOf(absDiff, node.gtoWeakPercent.v), None)>>
      ELSE <<>>

bluffLeaks(n, L) ==
  LET node == Node(n)
      playerPath == IF node.player = "OOP" THEN L.newOopPath ELSE L.newIpPath
  IN  IF /\ node.action \in {"bet", "raise"}
         /\ node.weakPercent.def
         /\ node.gtoWeakPercent.def
         /\ node.weakPercent.v # node.gtoWeakPercent.v
      THEN LET isOver == Gt(node.weakPercent.v, node.gtoWeakPercent.v)
               absDiff == MathAbs(Sub(node.weakPercent.v, node.gtoWeakPercent.v))
           IN  <<Leak(node, L, formatPath(playerPath), node.player,
                      IF isOver THEN "overbluff" ELSE "underbluff",
                      node.weakPercent.v, node.gtoWeakPercent.v, absDiff,
                      L.newPot, L.actingCombos,
                      relDiffOf(absDiff, node.gtoWeakPercent.v), None)>>
      ELSE <<>>

\* the floatEV of every line  call n -> checkChild -> betChild -> foldChild
\* that the three nested loops reach, in loop order
floatEVs(n, fr, L) ==
  LET node == Node(n)
      callAmount == fr.facingBet
      callPot == L.newPot
      callerPlayer == node.player
      ofFold(checkChild, betChild, foldChild) ==
        LET checkFreq == Node(checkChild).frequency
            betAmount == Div(Mul(callPot, OrDefault(Node(betChild).sizing, Num(50))), Num(100))
            foldFreq == Node(foldChild).frequency
        IN  Sub(Mul(checkFreq, Sub(Mul(foldFreq, callPot),
                                   Mul(Sub(One, foldFreq), betAmount))),
                callAmount)
      ofBet(checkChild, betChild) ==
        IF Node(betChild).player # callerPlayer \/ Node(betChild).action # "bet"
        THEN <<>>
        ELSE LET folds == SelectSeq(children(betChild), LAMBDA f :
                            ~(Node(f).action # "fold" \/ Node(f).player = callerPlayer))
             IN  [k \in 1..Len(folds) |-> ofFold(checkChild, betChild, folds[k])]
      ofCheck(checkChild) ==
        IF Node(checkChild).action # "check"
        THEN <<>>
        ELSE LET bets == children(checkChild)
             IN  FlattenSeq([j \in 1..Len(bets) |-> ofBet(checkChild, bets[j])])
      checks == children(n)
  IN  FlattenSeq([i \in 1..Len(checks) |-> ofCheck(checks[i])])

\* bestFloatEV keeping the first positive EV instead of the largest
firstFloatEV(evs, best) ==
  IF evs = <<>> THEN best
  ELSE LET floatEV == Head(evs)
       IN  firstFloatEV(Tail(evs),
                        IF Gt(floatEV, Zero) /\ ~best.def THEN Some(floatEV) ELSE best)

\* the loop's running maximum: bestFloatEV after the EVs evs, starting from best
RECURSIVE bestFloatEV(_, _)
bestFloatEV(evs, best) ==
  IF evs = <<>> THEN best
  ELSE LET floatEV == Head(evs)
       IN  bestFloatEV(Tail(evs),
                       IF Gt(floatEV, Zero) /\ (~best.def \/ Gt(floatEV, best.v))
                       THEN Some(floatEV) ELSE best)

floatLeaks(n, fr, L) ==
  LET node == Node(n)
      callerPlayer == node.player
      opponentPlayer == IF callerPlayer = "OOP" THEN "IP" ELSE "OOP"
      opponentPath == IF opponentPlayer = "OOP" THEN L.newOopPath ELSE L.newIpPath
      opponentCombos == IF opponentPlayer = "OOP" THEN L.oopCombos ELSE L.ipCombos
      best == bestFloatEV(floatEVs(n, fr, L), None)
  IN  IF node.action = "call" /\ best.def
      THEN <<Leak(node, L, formatPath(opponentPath), opponentPlayer, "float",
                  Zero, Zero, best.v, L.newPot, opponentCombos, Zero, Some(best.v))>>
      ELSE <<>>

\* the arguments of the recursive call on each child
leakChildFrame(fr, L) ==
  [oopPath |-> L.newOopPath, ipPath |-> L.newIpPath, parentReach |-> L.childReach,
   pot |-> L.newPot, facingBet |-> L.newFacingBet,
   parentOopCombos |-> L.oopCombos, parentIpCombos |-> L.ipCombos, isRoot |-> FALSE]

\* the findings pushed at node n itself, before the recursion into its children
leaksAt(n, fr) ==
  LET L == nodeLocals(n, fr)
  IN  foldLeaks(n, L) \o bluffLeaks(n, L) \o floatLeaks(n, fr, L)

\* findLeaks pushing a node's own findings after those of its children
RECURSIVE findLeaksPostOrder(_, _)
findLeaksPostOrder(n, fr) ==
  LET L == nodeLocals(n, fr)
      kids == children(n)
  IN  FlattenSeq([i \in 1..Len(kids) |-> findLeaksPostOrder(kids[i], leakChildFrame(fr, L))])
      \o leaksAt(n, fr)

RECURSIVE findLeaks(_, _)
findLeaks(n, fr) ==
  LET L == nodeLocals(n, fr)
      kids == children(n)
  IN  leaksAt(n, fr)
      \o FlattenSeq([i \in 1..Len(kids) |-> findLeaks(kids[i], leakChildFrame(fr, L))])

\* the arguments of the top-level call (LeaksTable, the allLeaks memo)
leakRootFrame ==
  [oopPath |-> <<>>, ipPath |-> <<>>, parentReach |-> One,
   pot |-> spot.potSize, facingBet |-> Zero,
   parentOopCombos |-> spot.oopCombos, parentIpCombos |-> spot.ipCombos, isRoot |-> TRUE]


-----------------------------------------------------------------------------
(* findExploits                                                            *)

Exploit(node, L, path, type, diff) ==
  [nodeId |-> node.id, path |-> path, player |-> node.player, type |-> type,
   frequency |-> node.frequency, gtoFrequency |-> node.gtoFrequency, diff |-> diff,
   reach |-> L.reach, street |-> node.street, potSize |-> L.newPot,
   combos |-> L.actingCombos, relDiff |-> relDiffOf(diff, node.gtoFrequency)]

isOverbluff(node) ==
  /\ node.action \in {"bet", "raise"}
  /\ node.weakPercent.def
  /\ node.gtoWeakPercent.def
  /\ Gt(node.weakPercent.v, node.gtoWeakPercent.v)

\* newOverbluffs raising the flag of both players
newOverbluffsOfBoth(node, opponentOverbluffs) ==
  [p \in Players |-> opponentOverbluffs[p] \/ isOverbluff(node)]

\* newOverbluffs forgetting the acting player's earlier overbluff
newOverbluffsOfNode(node, opponentOverbluffs) ==
  [opponentOverbluffs EXCEPT ![node.player] = isOverbluff(node)]

newOverbluffs(node, opponentOverbluffs) ==
  [opponentOverbluffs EXCEPT ![node.player] = opponentOverbluffs[node.player] \/ isOverbluff(node)]

\* opponentOverfolds without the test of the child's player
anyChildOverfolds(n) ==
  \E c \in 1..spot.n :
     /\ spot.parent[c] = n
     /\ Node(c).action = "fold"
     /\ Gt(Node(c).frequency, Node(c).gtoFrequency)

\* node.children.some(child => fold by the other player with frequency > gtoFrequency)
opponentOverfolds(n) ==
  \E c \in 1..spot.n :
     /\ spot.parent[c] = n
     /\ Node(c).action = "fold"
     /\ Node(c).player # Node(n).player
     /\ Gt(Node(c).frequency, Node(c).gtoFrequency)

missedExploitCall(node, L, fr) ==
  LET playerPath == IF node.player = "OOP" THEN L.newOopPath ELSE L.newIpPath
      opponent == IF node.player = "OOP" THEN "IP" ELSE "OOP"
      opponentHasOverbluffed == fr.opponentOverbluffs[opponent]
  IN  IF node.action = "fold" /\ Gt(node.frequency, node.gtoFrequency) /\ opponentHasOverbluffed
      THEN <<Exploit(node, L, formatPath(playerPath), "missed-exploit-call",
                     Sub(node.frequency, node.gtoFrequency))>>
      ELSE <<>>

missedExploitBet(node, L, fr) ==
  LET playerPath == IF node.player = "OOP" THEN L.newOopPath ELSE L.newIpPath
  IN  IF node.action \in {"bet", "raise"} /\ Lt(node.frequency, node.gtoFrequency)
         /\ opponentOverfolds(node.id)
      THEN <<Exploit(node, L, formatPath(playerPath), "missed-exploit-bet",
                     Sub(node.gtoFrequency, node.frequency))>>
      ELSE <<>>

\* exploitingCallByFold with the test of missed-exploit-call (> for <)
exploitingCallByOverfold(node, L, fr) ==
  LET playerPath == IF node.player = "OOP" THEN L.newOopPath ELSE L.newIpPath
      opponent == IF node.player = "OOP" THEN "IP" ELSE "OOP"
      opponentHasOverbluffed == fr.opponentOverbluffs[opponent]
  IN  IF node.action = "fold" /\ Gt(node.frequency, node.gtoFrequency) /\ opponentHasOverbluffed
      THEN <<Exploit(node, L, formatPath(playerPath), "exploiting-call",
                     Sub(node.gtoFrequency, node.frequency))>>
      ELSE <<>>

exploitingCallByFold(node, L, fr) ==
  LET playerPath == IF node.player = "OOP" THEN L.newOopPath ELSE L.newIpPath
      opponent == IF node.player = "OOP" THEN "IP" ELSE "OOP"
      opponentHasOverbluffed == fr.opponentOverbluffs[opponent]
  IN  IF node.action = "fold" /\ Lt(node.frequency, node.gtoFrequency) /\ opponentHasOverbluffed
      THEN <<Exploit(node, L, formatPath(playerPath), "exploiting-call",
                     Sub(node.gtoFrequency, node.frequency))>>
      ELSE <<>>

\* exploitingCallByCall with < for > : the undercalling call reported
exploitingCallByUndercall(node, L, fr) ==
  LET playerPath == IF node.player = "OOP" THEN L.newOopPath ELSE L.newIpPath
      opponent == IF node.player = "OOP" THEN "IP" ELSE "OOP"
      opponentHasOverbluffed == fr.opponentOverbluffs[opponent]
  IN  IF node.action = "call" /\ Lt(node.frequency, node.gtoFrequency) /\ opponentHasOverbluffed
      THEN <<Exploit(node, L, formatPath(playerPath), "exploiting-call",
                     Sub(node.frequency, node.gtoFrequency))>>
      ELSE <<>>

exploitingCallByCall(node, L, fr) ==
  LET playerPath == IF node.player = "OOP" THEN L.newOopPath ELSE L.newIpPath
      opponent == IF node.player = "OOP" THEN "IP" ELSE "OOP"
      opponentHasOverbluffed == fr.opponentOverbluffs[opponent]
  IN  IF node.action = "call" /\ Gt(node.frequency, node.gtoFrequency) /\ opponentHasOverbluffed
      THEN <<Exploit(node, L, formatPath(playerPath), "exploiting-call",
                     Sub(node.frequency, node.gtoFrequency))>>
      ELSE <<>>

exploitingBet(node, L, fr) ==
  LET playerPath == IF node.player = "OOP" THEN L.newOopPath ELSE L.newIpPath
  IN  IF node.action \in {"bet", "raise"} /\ Gt(node.frequency, node.gtoFrequency)
         /\ opponentOverfolds(node.id)
      THEN <<Exploit(node, L, formatPath(playerPath), "exploiting-bet",
                     Sub(node.frequency, node.gtoFrequency))>>
      ELSE <<>>

\* the findings pushed at node n itself, in the order of the five if statements
exploitsAt(n, fr) ==
  LET node == Node(n)
      L == nodeLocals(n, fr)
  IN  missedExploitCall(node, L, fr)
      \o missedExploitBet(node, L, fr)
      \o exploitingCallByFold(node, L, fr)
      \o exploitingCallByCall(node, L, fr)
      \o exploitingBet(node, L, fr)

\* the arguments of the recursive call on each child
exploitChildFrame(n, fr) ==
  LET L == nodeLocals(n, fr)
  IN  [oopPath |-> L.newOopPath, ipPath |-> L.newIpPath, parentReach |-> L.childReach,
       pot |-> L.newPot, facingBet |-> L.newFacingBet,
       parentOopCombos |-> L.oopCombos, parentIpCombos |-> L.ipCombos, isRoot |-> FALSE,
       opponentOverbluffs |-> newOverbluffs(Node(n), fr.opponentOverbluffs)]

RECURSIVE findExploits(_, _)
findExploits(n, fr) ==
  LET kids == children(n)
  IN  exploitsAt(n, fr)
      \o FlattenSeq([i \in 1..Len(kids) |-> findExploits(kids[i], exploitChildFrame(n, fr))])

\* the arguments of the top-level call (LeaksTable, the allExploits memo)
exploitRootFrame ==
  [oopPath |-> <<>>, ipPath |-> <<>>, parentReach |-> One,
   pot |-> spot.potSize, facingBet |-> Zero,
   parentOopCombos |-> spot.oopCombos, parentIpCombos |-> spot.ipCombos, isRoot |-> TRUE,
   opponentOverbluffs |-> [OOP |-> FALSE, IP |-> FALSE]]

\* the arguments with which each traversal reaches node n
RECURSIVE leakFrameAt(_)
leakFrameAt(n) ==
  IF n = Root THEN leakRootFrame
  ELSE LET fr == leakFrameAt(spot.parent[n])
       IN  leakChildFrame(fr, nodeLocals(spot.parent[n], fr))

RECURSIVE exploitFrameAt(_)
exploitFrameAt(n) ==
  IF n = Root THEN exploitRootFrame
  ELSE exploitChildFrame(spot.parent[n], exploitFrameAt(spot.parent[n]))

\* the frames of the nodes 1..k of each traversal, as a sequence: the frame
\* of a node is computed from the frame of its parent, which has a smaller number
RECURSIVE LeakFrames(_)
LeakFrames(k) ==
  IF k = 0 THEN <<>>
  ELSE LET frames == LeakFrames(k - 1)
       IN  Append(frames,
                  IF k = Root THEN leakRootFrame
                  ELSE leakChildFrame(frames[spot.parent[k]],
                                      nodeLocals(spot.parent[k], frames[spot.parent[k]])))

RECURSIVE ExploitFrames(_)
ExploitFrames(k) ==
  IF k = 0 THEN <<>>
  ELSE LET frames == ExploitFrames(k - 1)
       IN  Append(frames,
                  IF k = Root THEN exploitRootFrame
                  ELSE exploitChildFrame(spot.parent[k], frames[spot.parent[k]]))


-----------------------------------------------------------------------------
(* The pattern classifier: buildNodeAndParentMaps, getLastAggressor,       *)
(* getActionPattern.  A Map is a function whose domain is its key set; a   *)
(* node stands for itself in the maps, NoNode for null / undefined.        *)

NoNode == 0
NoPattern == "null"

\* Map.set
MapSet(m, k, v) == [x \in (DOMAIN m) \cup {k} |-> IF x = k THEN v ELSE m[x]]
\* Map.get, NoNode for a missing key
MapGet(m, k) == IF k \in DOMAIN m THEN m[k] ELSE NoNode

RECURSIVE buildNodeAndParentMaps(_, _, _)
RECURSIVE buildMapsOfChildren(_, _, _)
\* buildNodeAndParentMaps handing its own parent on to the children
buildMapsUnderGrandparent(n, parent, maps) ==
  buildMapsOfChildren(children(n), parent,
                      [nodeMap |-> MapSet(maps.nodeMap, n, n),
                       parentMap |-> MapSet(maps.parentMap, n, parent)])

buildNodeAndParentMaps(n, parent, maps) ==
  buildMapsOfChildren(children(n), n,
                      [nodeMap |-> MapSet(maps.nodeMap, n, n),
                       parentMap |-> MapSet(maps.parentMap, n, parent)])

\* the for loop over node.children
buildMapsOfChildren(kids, n, maps) ==
  IF kids = <<>> THEN maps
  ELSE buildMapsOfChildren(Tail(kids), n, buildNodeAndParentMaps(Head(kids), n, maps))

\* getLastAggressor walking away from the start, returning the aggressor found last
RECURSIVE getFirstAggressor(_)
getFirstAggressor(startId) ==
  LET id == startId
      node == MapGet(nodeMap, id)
      earlier == IF id = NoNode \/ node = NoNode THEN NoPattern
                 ELSE getFirstAggressor(MapGet(parentMap, id))
  IN  IF id = NoNode \/ node = NoNode THEN NoPattern
      ELSE IF earlier # NoPattern THEN earlier
      ELSE IF spot.action[node] \in {"bet", "raise"} THEN spot.player[node]
      ELSE NoPattern

\* the while loop: the player of the first bet or raise from startId upwards,
\* NoPattern (null) when the walk runs out of nodes
RECURSIVE getLastAggressor(_)
getLastAggressor(startId) ==
  LET id == startId
      node == MapGet(nodeMap, id)
  IN  IF id = NoNode THEN NoPattern
      ELSE IF node = NoNode THEN NoPattern
      ELSE IF spot.action[node] \in {"bet", "raise"} THEN spot.player[node]
      ELSE getLastAggressor(MapGet(parentMap, id))

\* resolveBet taking the parent bet or raise of every node that is not one
resolveBetOfAnyChild(nodeId) ==
  LET node == MapGet(nodeMap, nodeId)
  IN  IF node = NoNode THEN [betNode |-> NoNode, betParent |-> NoNode]
      ELSE IF spot.action[node] \in {"bet", "raise"}
      THEN [betNode |-> node, betParent |-> MapGet(parentMap, node)]
      ELSE LET parent == MapGet(parentMap, node)
           IN  IF parent # NoNode /\ spot.action[parent] \in {"bet", "raise"}
               THEN [betNode |-> parent, betParent |-> MapGet(parentMap, parent)]
               ELSE [betNode |-> NoNode, betParent |-> NoNode]

\* the bet or raise a node id resolves to and its parent, NoNode when there is none
resolveBet(nodeId) ==
  LET node == MapGet(nodeMap, nodeId)
  IN  IF node = NoNode THEN [betNode |-> NoNode, betParent |-> NoNode]
      ELSE IF spot.action[node] \in {"bet", "raise"}
      THEN [betNode |-> node, betParent |-> MapGet(parentMap, node)]
      ELSE IF spot.action[node] \in {"fold", "call"}
      THEN LET parent == MapGet(parentMap, node)
           IN  IF parent # NoNode /\ spot.action[parent] \in {"bet", "raise"}
               THEN [betNode |-> parent, betParent |-> MapGet(parentMap, parent)]
               ELSE [betNode |-> NoNode, betParent |-> NoNode]
      ELSE [betNode |-> NoNode, betParent |-> NoNode]

\* getActionPattern calling a bet after any call a donk
getActionPatternAnyCaller(nodeId) ==
  LET r == resolveBet(nodeId)
      betNode == r.betNode
      betParent == r.betParent
  IN  IF betNode = NoNode \/ betParent = NoNode THEN NoPattern
      ELSE IF /\ spot.player[betNode] = "IP" /\ spot.action[betParent] = "check"
              /\ spot.player[betParent] = "OOP"
      THEN IF getLastAggressor(betParent) # "IP" THEN "stab" ELSE NoPattern
      ELSE IF /\ spot.player[betNode] = "OOP" /\ spot.action[betParent] = "check"
              /\ spot.player[betParent] = "IP"
      THEN "probe"
      ELSE IF spot.action[betParent] = "call"
      THEN "donk"
      ELSE NoPattern

getActionPattern(nodeId) ==
  LET r == resolveBet(nodeId)
      betNode == r.betNode
      betParent == r.betParent
  IN  IF betNode = NoNode \/ betParent = NoNode THEN NoPattern
      ELSE IF /\ spot.player[betNode] = "IP" /\ spot.action[betParent] = "check"
              /\ spot.player[betParent] = "OOP"
      THEN IF getLastAggressor(betParent) # "IP" THEN "stab" ELSE NoPattern
      ELSE IF /\ spot.player[betNode] = "OOP" /\ spot.action[betParent] = "check"
              /\ spot.player[betParent] = "IP"
      THEN "probe"
      ELSE IF spot.action[betParent] = "call" /\ spot.player[betParent] = spot.player[betNode]
      THEN "donk"
      ELSE NoPattern

\* the nodes the while loop of getLastAggressor looks up, in order
RECURSIVE getLastAggressorWalk(_)
getLastAggressorWalk(startId) ==
  LET id == startId
      node == MapGet(nodeMap, id)
  IN  IF id = NoNode THEN <<>>
      ELSE IF node = NoNode THEN <<>>
      ELSE IF spot.action[node] \in {"bet", "raise"} THEN <<node>>
      ELSE <<node>> \o getLastAggressorWalk(MapGet(parentMap, id))

\* the nodes a getActionPattern query looks at: the node, the parents it
\* fetches while resolving the bet, and the walk of getLastAggressor
getActionPatternVisits(nodeId) ==
  LET node == MapGet(nodeMap, nodeId)
      r == resolveBet(nodeId)
      fetched == IF node = NoNode THEN {}
                 ELSE IF spot.action[node] \in {"bet", "raise"}
                 THEN {node, MapGet(parentMap, node)}
                 ELSE IF spot.action[node] \in {"fold", "call"}
                 THEN {node, MapGet(parentMap, node), r.betParent}
                 ELSE {node}
      walk == IF /\ r.betNode # NoNode /\ r.betParent # NoNode
                 /\ spot.player[r.betNode] = "IP" /\ spot.action[r.betParent] = "check"
                 /\ spot.player[r.betParent] = "OOP"
              THEN getLastAggressorWalk(r.betParent) ELSE <<>>
  IN  (fetched \cup {walk[i] : i \in DOMAIN walk}) \ {NoNode}

-----------------------------------------------------------------------------
(* The inputs.  A spot and its profiles are drawn from families of trees;  *)
(* a family fixes the shape (the parent of every node) and gives each node *)
(* the set of descriptions it may take.  A description holds the node's    *)
(* BaseTreeNode fields, its entry in the acting player's GTO profile (gto) *)
(* and active profile (act), and whether the other player's two profiles   *)
(* also hold an entry under the node's id (decoy).                         *)

\* frequencies are the multiples of 1 / FreqDen in [0, 1]
FreqDen == 2

DefaultPot == 10
DefaultCombos == 100

Grid == {Rat(k, FreqDen) : k \in 0..FreqDen}
Half == Rat(1, 2)
OptGrid == {None} \cup {Some(q) : q \in Grid}
Entries(fs, ws) == {Entry(f, w) : f \in fs, w \in ws}

DecoyGto == Entry(Zero, Some(One))
DecoyAct == Entry(Zero, Some(Zero))

NS(actions, players, streets, sizings, gtos, acts, decoys) ==
  [action : actions, player : players, street : streets, sizing : sizings,
   gto : gtos, act : acts, decoy : decoys]

RECURSIVE SeqProd(_)
SeqProd(doms) ==
  IF doms = <<>> THEN {<<>>}
  ELSE {<<x>> \o rest : x \in Head(doms), rest \in SeqProd(Tail(doms))}

\* Family A: one decision under a root, every local property of the decision
FamilyA ==
  [parent |-> <<0, 1>>,
   hide |-> {FALSE},
   doms |-> <<
     NS({"check", "bet"}, {"OOP"}, {"flop"}, {Some(Num(50))},
        {Absent}, {Absent, Entry(Half, None)}, {FALSE}),
     NS({"bet"}, Players, {"flop"}, {None, Some(Zero), Some(Num(50))},
        {Absent} \cup Entries(Grid, OptGrid), {Absent} \cup Entries(Grid, OptGrid), {FALSE})
     \cup
     NS({"raise"}, Players, {"flop"}, {None, Some(Zero), Some(Num(2))},
        {Absent} \cup Entries(Grid, OptGrid), {Absent} \cup Entries(Grid, OptGrid), {FALSE})
     \cup
     NS({"fold", "call", "check"}, Players, {"flop"}, {None},
        {Absent} \cup Entries(Grid, {None}), {Absent} \cup Entries(Grid, {None}), {FALSE})
     \cup
     NS({"fold", "call", "check"}, Players, {"flop"}, {None},
        Entries({Half}, OptGrid), Entries({Half}, OptGrid), {FALSE})
   >>]

\* the profile pairs <<gto, act>> of a bettor: no weak data, an overbluff, an underbluff
BluffPairs ==
  {<<Absent, Absent>>,
   <<Entry(One, Some(Zero)), Entry(One, Some(Half))>>,
   <<Entry(One, Some(Half)), Entry(One, Some(Zero))>>}

\* the profile pairs <<gto, act>> of a decision: frequency above, below, equal to GTO
FreqPairs ==
  {<<Entry(Half, None), Entry(One, None)>>,
   <<Entry(Half, None), Entry(Zero, None)>>,
   <<Entry(Half, None), Absent>>}

NSP(actions, players, streets, sizings, pairs, decoys) ==
  UNION {NS(actions, players, streets, sizings, {pr[1]}, {pr[2]}, decoys) : pr \in pairs}

\* Family B: an aggressor (or none) above a decision, on the path or beside it
FamilyBDoms ==
  <<NSP({"bet", "check"}, Players, {"flop"}, {Some(Num(50))}, BluffPairs, {TRUE}),
    NSP({"bet", "raise", "check", "call"}, Players, {"flop"}, {Some(Num(2))},
        {<<Absent, Absent>>, <<Entry(One, Some(Zero)), Entry(One, Some(Half))>>}, {TRUE}),
    NSP({"fold", "call", "bet"}, Players, {"flop"}, {None}, FreqPairs, {TRUE})>>

FamilyB1 == [parent |-> <<0, 1, 2>>, hide |-> {FALSE}, doms |-> FamilyBDoms]
FamilyB2 == [parent |-> <<0, 1, 1>>, hide |-> {FALSE}, doms |-> FamilyBDoms]

\* Family C: under an opening bet, a bet or raise, the responses to it and a
\* decision one level deeper
FamilyCDoms ==
  <<NSP({"bet"}, Players, {"flop"}, {Some(Num(50))},
        {<<Absent, Absent>>, <<Entry(One, Some(Zero)), Entry(One, Some(Half))>>}, {FALSE}),
    NSP({"bet", "raise"}, Players, {"flop"}, {Some(Num(50))}, FreqPairs, {FALSE}),
    NSP({"fold", "check", "call"}, Players, {"flop"}, {None},
        {<<Entry(Half, None), Entry(One, None)>>, <<Entry(Half, None), Absent>>}, {FALSE}),
    NSP({"fold", "check"}, Players, {"flop", "turn"}, {None},
        {<<Entry(Half, None), Entry(One, None)>>, <<Entry(Half, None), Absent>>}, {FALSE})>>

FamilyC1 == [parent |-> <<0, 1, 2, 3>>, hide |-> {FALSE, TRUE}, doms |-> FamilyCDoms]
FamilyC2 == [parent |-> <<0, 1, 2, 2>>, hide |-> {FALSE, TRUE}, doms |-> FamilyCDoms]

\* Family D: bet, call, check, bet by the caller, two responses (the float lines)
FamilyD ==
  [parent |-> <<0, 1, 2, 3, 4, 4>>,
   hide |-> {FALSE},
   doms |-> <<
     NS({"bet"}, Players, {"flop"}, {Some(Num(10)), Some(Num(50))}, {Absent}, {Absent}, {TRUE}),
     NS({"call"}, Players, {"flop"}, {None}, {Absent}, {Absent}, {TRUE})
       \cup NS({"check"}, {"OOP"}, {"flop"}, {None}, {Absent}, {Absent}, {TRUE}),
     NS({"check"}, Players, {"turn"}, {None}, {Absent}, {Absent, Entry(Half, None)}, {TRUE})
       \cup NS({"bet"}, {"OOP"}, {"turn"}, {None}, {Absent}, {Absent}, {TRUE}),
     NS({"bet"}, Players, {"turn"}, {None, Some(Zero), Some(Num(100))},
        {Absent}, {Absent}, {TRUE})
       \cup NS({"raise"}, {"IP"}, {"turn"}, {None}, {Absent}, {Absent}, {TRUE}),
     NS({"fold"}, Players, {"turn"}, {None}, {Entry(Half, None)}, Entries(Grid, {None}), {TRUE})
       \cup NS({"call"}, {"IP"}, {"turn"}, {None}, {Absent}, {Absent}, {TRUE}),
     NS({"fold"}, Players, {"turn"}, {None}, {Entry(Half, None)}, Entries(Grid, {None}), {TRUE})
       \cup NS({"call"}, {"IP"}, {"turn"}, {None}, {Absent}, {Absent}, {TRUE})
   >>]

\* Family E: a bet answered by a raise with its own response and by a fold, so
\* that the second child of the root is numbered before the grandchild; GTO
\* frequencies of 0 and 1 beside those of 1/2
FamilyE ==
  [parent |-> <<0, 1, 1, 2>>,
   hide |-> {FALSE},
   doms |-> <<
     NSP({"bet"}, Players, {"flop"}, {Some(Num(50))}, BluffPairs, {FALSE}),
     NSP({"raise", "call"}, Players, {"flop"}, {None},
         {<<Entry(Half, Some(Zero)), Entry(One, Some(Half))>>,
          <<Entry(Half, Some(Zero)), Entry(Half, Some(Half))>>,
          <<Entry(Zero, None), Entry(One, None)>>,
          <<Entry(Half, None), Absent>>},
         {FALSE}),
     NSP({"fold", "call"}, Players, {"flop"}, {None},
         FreqPairs \cup {<<Entry(One, None), Entry(Half, None)>>}, {FALSE}),
     NSP({"fold"}, Players, {"flop"}, {None},
         FreqPairs \cup {<<Entry(Zero, None), Entry(One, None)>>}, {FALSE})
   >>]

\* Family P: every line of four actions by either player, and a response to it
FamilyP ==
  [parent |-> <<0, 1, 2, 3, 4>>,
   hide |-> {FALSE},
   doms |-> <<
     NS(Actions, Players, {"flop"}, {None}, {Absent}, {Absent}, {FALSE}),
     NS(Actions, Players, {"flop"}, {None}, {Absent}, {Absent}, {FALSE}),
     NS(Actions, Players, {"flop"}, {None}, {Absent}, {Absent}, {FALSE}),
     NS(Actions, Players, {"flop"}, {None}, {Absent}, {Absent}, {FALSE}),
     NS({"fold", "check"}, {"OOP"}, {"flop"}, {None}, {Absent}, {Absent}, {FALSE})
   >>]

\* Family F: a check, a bet into it and the fold that answers, the folder's
\* GTO frequency 1/5
FamilyF ==
  [parent |-> <<0, 1, 2>>,
   hide |-> {FALSE},
   doms |-> <<
     NS({"check"}, {"OOP"}, {"flop"}, {None}, {Absent}, {Absent}, {FALSE}),
     NS({"bet"}, {"IP"}, {"flop"}, {Some(Num(50)), Some(Num(100))},
        {Absent}, {Absent}, {FALSE}),
     NS({"fold"}, {"OOP"}, {"flop"}, {None}, {Entry(Rat(1, 5), None)},
        {Absent, Entry(Half, None), Entry(Zero, None)}, {FALSE})
   >>]

\* Family G: a bet, a raise or a check over it and the answer, with pot odds
\* that are not whole percentages
FamilyG ==
  [parent |-> <<0, 1, 2>>,
   hide |-> {FALSE, TRUE},
   doms |-> <<
     NS({"bet"}, Players, {"flop"}, {Some(Num(10)), Some(Num(33))},
        {Absent}, {Absent}, {FALSE}),
     NS({"raise"}, Players, {"flop", "turn"}, {None, Some(Zero), Some(One), Some(Num(2))},
        {Absent}, {Absent}, {FALSE})
       \cup NS({"check"}, Players, {"flop"}, {None}, {Absent}, {Absent}, {FALSE}),
     NS({"call", "fold"}, Players, {"flop", "turn"}, {None}, {Absent}, {Absent}, {FALSE})
   >>]

\* Family H: a float line whose folder may play its GTO frequency
FamilyH ==
  [parent |-> <<0, 1, 2, 3, 4>>,
   hide |-> {FALSE},
   doms |-> <<
     NS({"bet"}, {"OOP"}, {"flop"}, {Some(Num(50))},
        {Absent, Entry(One, Some(Half))},
        {Absent, Entry(One, Some(Half)), Entry(One, Some(Zero))}, {FALSE}),
     NS({"call"}, {"IP"}, {"flop"}, {None}, {Absent}, {Absent}, {FALSE}),
     NS({"check"}, {"OOP"}, {"turn"}, {None}, {Absent}, {Absent, Entry(Half, None)}, {FALSE}),
     NS({"bet"}, {"IP"}, {"turn"}, {None}, {Absent}, {Absent}, {FALSE}),
     NS({"fold"}, {"OOP"}, {"turn"}, {None},
        {Entry(Half, None), Entry(One, None)}, {Entry(Half, None), Entry(One, None)}, {FALSE})
   >>]

Families ==
  {FamilyA, FamilyB1, FamilyB2, FamilyC1, FamilyC2, FamilyD, FamilyE, FamilyF, FamilyG,
   FamilyH, FamilyP}

MkSpot(parent, ns) ==
  [n |-> Len(ns),
   parent |-> parent,
   action |-> [i \in 1..Len(ns) |-> ns[i].action],
   player |-> [i \in 1..Len(ns) |-> ns[i].player],
   street |-> [i \in 1..Len(ns) |-> ns[i].street],
   sizing |-> [i \in 1..Len(ns) |-> ns[i].sizing],
   potSize |-> Num(DefaultPot),
   oopCombos |-> Num(DefaultCombos),
   ipCombos |-> Num(DefaultCombos)]

MkProfiles(ns, own, decoy) ==
  [p \in Players |->
     [i \in 1..Len(ns) |->
        IF ns[i].player = p THEN own[i]
        ELSE IF ns[i].decoy THEN decoy ELSE Absent]]

-----------------------------------------------------------------------------
(* The pipeline                                                            *)

Init ==
  \E fam \in Families : \E ns \in SeqProd(fam.doms) : \E hide \in fam.hide :
     /\ spot = MkSpot(fam.parent, ns)
     /\ gtoProfiles = MkProfiles(ns, [i \in 1..Len(ns) |-> ns[i].gto], DecoyGto)
     /\ playerProfiles = MkProfiles(ns, [i \in 1..Len(ns) |-> ns[i].act], DecoyAct)
     /\ hideRootFromLine = hide
     /\ processedTree = <<>>
     /\ allLeaks = <<>>
     /\ allExploits = <<>>
     /\ nodeMap = <<>>
     /\ parentMap = <<>>
     /\ pc = "loaded"

\* page.tsx: the processedTree memo
ApplyProfiles ==
  /\ pc = "loaded"
  /\ processedTree' = applyProfilesToTree
  /\ pc' = "processed"
  /\ UNCHANGED <<spot, gtoProfiles, playerProfiles, hideRootFromLine, allLeaks, allExploits,
                 nodeMap, parentMap>>

\* LeaksTable: the allLeaks memo
FindLeaks ==
  /\ pc = "processed"
  /\ allLeaks' = findLeaks(Root, leakRootFrame)
  /\ pc' = "leaks"
  /\ UNCHANGED <<spot, gtoProfiles, playerProfiles, hideRootFromLine, processedTree,
                 allExploits, nodeMap, parentMap>>

\* LeaksTable: the allExploits memo
FindExploits ==
  /\ pc = "leaks"
  /\ allExploits' = findExploits(Root, exploitRootFrame)
  /\ pc' = "exploits"
  /\ UNCHANGED <<spot, gtoProfiles, playerProfiles, hideRootFromLine, processedTree,
                 allLeaks, nodeMap, parentMap>>

\* LeaksTable: the { nodeMap, parentMap } memo
BuildMaps ==
  /\ pc = "exploits"
  /\ LET maps == buildNodeAndParentMaps(Root, NoNode, [nodeMap |-> <<>>, parentMap |-> <<>>])
     IN  /\ nodeMap' = maps.nodeMap
         /\ parentMap' = maps.parentMap
  /\ pc' = "maps"
  /\ UNCHANGED <<spot, gtoProfiles, playerProfiles, hideRootFromLine, processedTree,
                 allLeaks, allExploits>>

Next == ApplyProfiles \/ FindLeaks \/ FindExploits \/ BuildMaps

Spec == Init /\ [][Next]_vars


-----------------------------------------------------------------------------
(* Vocabulary of the properties                                            *)

Resolved == pc # "loaded"
LeaksDone == pc \in {"leaks", "exploits", "maps"}
ExploitsDone == pc \in {"exploits", "maps"}
MapsDone == pc = "maps"
\* both traversals have just returned
Traversed == pc = "exploits"

Opp(p) == IF p = "OOP" THEN "IP" ELSE "OOP"

RECURSIVE Ancestors(_)
Ancestors(n) ==
  IF n = Root THEN {} ELSE {spot.parent[n]} \cup Ancestors(spot.parent[n])

LeakIdx(n, types) ==
  {i \in DOMAIN allLeaks : allLeaks[i].nodeId = n /\ allLeaks[i].type \in types}

ExploitIdx(n, types) ==
  {i \in DOMAIN allExploits : allExploits[i].nodeId = n /\ allExploits[i].type \in types}

\* some proper ancestor of n is a bet or raise of player p whose weakPercent
\* and gtoWeakPercent are both defined with weakPercent > gtoWeakPercent
OverbluffAbove(n, p) ==
  \E a \in Ancestors(n) :
     /\ spot.action[a] \in {"bet", "raise"}
     /\ spot.player[a] = p
     /\ processedTree[a].weakPercent.def
     /\ processedTree[a].gtoWeakPercent.def
     /\ Gt(processedTree[a].weakPercent.v, processedTree[a].gtoWeakPercent.v)

\* some immediate child of n is a fold of the other player with frequency > gtoFrequency
ChildOverfolds(n) ==
  \E c \in NodeIds :
     /\ spot.parent[c] = n
     /\ spot.action[c] = "fold"
     /\ spot.player[c] = Opp(spot.player[n])
     /\ Gt(processedTree[c].frequency, processedTree[c].gtoFrequency)

-----------------------------------------------------------------------------
(* C1: at every node findLeaks emits an overfold finding, with             *)
(* diff = frequency - gtoFrequency, exactly when the node is a fold with   *)
(* frequency > gtoFrequency; an underfold finding, with                    *)
(* diff = gtoFrequency - frequency, exactly when it is a fold with         *)
(* frequency < gtoFrequency; and no fold leak otherwise.                   *)
C1_FoldLeaks ==
  LeaksDone =>
    \A n \in NodeIds :
      LET f == processedTree[n].frequency
          g == processedTree[n].gtoFrequency
          isFold == spot.action[n] = "fold"
          over == LeakIdx(n, {"overfold"})
          under == LeakIdx(n, {"underfold"})
      IN  /\ Cardinality(over) = (IF isFold /\ Gt(f, g) THEN 1 ELSE 0)
          /\ Cardinality(under) = (IF isFold /\ Lt(f, g) THEN 1 ELSE 0)
          /\ \A i \in over : allLeaks[i].diff = Sub(f, g)
          /\ \A i \in under : allLeaks[i].diff = Sub(g, f)

\* a tree in which findLeaks reports an overfold and an underfold
C1_Witness ==
  /\ LeaksDone
  /\ \E i, j \in DOMAIN allLeaks :
        allLeaks[i].type = "overfold" /\ allLeaks[j].type = "underfold"

(* C2: findExploits emits missed-exploit-call at n iff n is a fold with    *)
(* frequency > gtoFrequency and a proper ancestor of n is a bet or raise   *)
(* of the opponent of n's player with weakPercent > gtoWeakPercent (both   *)
(* defined).  The player's own overbluff, or one on another branch, does   *)
(* not count.                                                              *)
C2_MissedExploitCall ==
  ExploitsDone =>
    \A n \in NodeIds :
      LET found == ExploitIdx(n, {"missed-exploit-call"})
          expected == /\ spot.action[n] = "fold"
                      /\ Gt(processedTree[n].frequency, processedTree[n].gtoFrequency)
                      /\ OverbluffAbove(n, Opp(spot.player[n]))
      IN  Cardinality(found) = (IF expected THEN 1 ELSE 0)

\* a missed-exploit-call whose overbluffing ancestor is not the parent
C2_Witness ==
  /\ ExploitsDone
  /\ \E i \in DOMAIN allExploits :
        /\ allExploits[i].type = "missed-exploit-call"
        /\ spot.action[spot.parent[allExploits[i].nodeId]] \notin {"bet", "raise"}

(* C3: findExploits emits exploiting-call at n iff the opponent of n's     *)
(* player has overbluffed at a proper ancestor of n and n is either a fold *)
(* with frequency < gtoFrequency (diff = gtoFrequency - frequency) or a    *)
(* call with frequency > gtoFrequency (diff = frequency - gtoFrequency).   *)
C3_ExploitingCall ==
  ExploitsDone =>
    \A n \in NodeIds :
      LET f == processedTree[n].frequency
          g == processedTree[n].gtoFrequency
          found == ExploitIdx(n, {"exploiting-call"})
          byFold == spot.action[n] = "fold" /\ Lt(f, g)
          byCall == spot.action[n] = "call" /\ Gt(f, g)
          expected == OverbluffAbove(n, Opp(spot.player[n])) /\ (byFold \/ byCall)
      IN  /\ Cardinality(found) = (IF expected THEN 1 ELSE 0)
          /\ \A i \in found :
                allExploits[i].diff = (IF byFold THEN Sub(g, f) ELSE Sub(f, g))

\* an exploiting-call at an overcalling call node
C3_Witness ==
  /\ ExploitsDone
  /\ \E i \in DOMAIN allExploits :
        /\ allExploits[i].type = "exploiting-call"
        /\ spot.action[allExploits[i].nodeId] = "call"
        /\ Gt(allExploits[i].diff, Zero)

(* C4: at a bet or raise node n findExploits emits missed-exploit-bet iff  *)
(* frequency < gtoFrequency and an immediate child of n is a fold of the   *)
(* other player with frequency > gtoFrequency, and exploiting-bet iff      *)
(* frequency > gtoFrequency and the same holds of a child; deeper folds,   *)
(* folds of the same player and the overbluff state play no part.          *)
C4_BetExploits ==
  ExploitsDone =>
    \A n \in NodeIds :
      spot.action[n] \in {"bet", "raise"} =>
        LET f == processedTree[n].frequency
            g == processedTree[n].gtoFrequency
        IN  /\ Cardinality(ExploitIdx(n, {"missed-exploit-bet"}))
                 = (IF Lt(f, g) /\ ChildOverfolds(n) THEN 1 ELSE 0)
            /\ Cardinality(ExploitIdx(n, {"exploiting-bet"}))
                 = (IF Gt(f, g) /\ ChildOverfolds(n) THEN 1 ELSE 0)

\* a bet exploit at a node that no overbluff of either player precedes
C4_Witness ==
  /\ ExploitsDone
  /\ \E i \in DOMAIN allExploits :
        /\ allExploits[i].type = "missed-exploit-bet"
        /\ ~OverbluffAbove(allExploits[i].nodeId, "OOP")
        /\ ~OverbluffAbove(allExploits[i].nodeId, "IP")

(* C5: findLeaks emits a bluff leak at n iff n is a bet or raise whose     *)
(* weakPercent and gtoWeakPercent are both defined and differ; it is an    *)
(* overbluff when weakPercent > gtoWeakPercent and an underbluff           *)
(* otherwise, with diff = |weakPercent - gtoWeakPercent|; frequency and    *)
(* gtoFrequency play no part.                                              *)
C5_BluffLeaks ==
  LeaksDone =>
    \A n \in NodeIds :
      LET w == processedTree[n].weakPercent
          gw == processedTree[n].gtoWeakPercent
          found == LeakIdx(n, {"overbluff", "underbluff"})
          expected == /\ spot.action[n] \in {"bet", "raise"}
                      /\ w.def /\ gw.def
                      /\ w.v # gw.v
      IN  /\ Cardinality(found) = (IF expected THEN 1 ELSE 0)
          /\ \A i \in found :
                /\ allLeaks[i].type = (IF Gt(w.v, gw.v) THEN "overbluff" ELSE "underbluff")
                /\ allLeaks[i].diff = (IF Gt(w.v, gw.v) THEN Sub(w.v, gw.v) ELSE Sub(gw.v, w.v))

\* an underbluff at a node that is bet more often than GTO
C5_Witness ==
  /\ LeaksDone
  /\ \E i \in DOMAIN allLeaks :
        /\ allLeaks[i].type = "underbluff"
        /\ Gt(processedTree[allLeaks[i].nodeId].frequency,
              processedTree[allLeaks[i].nodeId].gtoFrequency)


-----------------------------------------------------------------------------
(* Float lines.  A line of the call node n is a check child of n, a bet    *)
(* child of that check made by the caller, and a fold child of that bet    *)
(* made by the other player.                                               *)
FloatLines(n) ==
  {line \in NodeIds \X NodeIds \X NodeIds :
     /\ spot.parent[line[1]] = n /\ spot.action[line[1]] = "check"
     /\ spot.parent[line[2]] = line[1] /\ spot.action[line[2]] = "bet"
     /\ spot.player[line[2]] = spot.player[n]
     /\ spot.parent[line[3]] = line[2] /\ spot.action[line[3]] = "fold"
     /\ spot.player[line[3]] = Opp(spot.player[n])}

\* checkFreq * (foldFreq * potAfterCall - (1 - foldFreq) * betAmount) - callAmount
EVFormula(checkFreq, foldFreq, potAfterCall, betAmount, callAmount) ==
  Sub(Mul(checkFreq, Sub(Mul(foldFreq, potAfterCall), Mul(Sub(One, foldFreq), betAmount))),
      callAmount)

\* the EV of a line with betAmount = potAfterCall * betSizing / 100, betSizing
\* being the bet child's sizing (50 when the node has none); callAmount is the
\* facing bet carried to the call and potAfterCall the pot carried to its children
SizedLineEV(n, line) ==
  LET callAmount == leakFrameAt(n).facingBet
      potAfterCall == leakFrameAt(line[1]).pot
      betSizing == IF spot.sizing[line[2]].def THEN spot.sizing[line[2]].v ELSE Num(50)
      betAmount == Div(Mul(potAfterCall, betSizing), Num(100))
  IN  EVFormula(processedTree[line[1]].frequency, processedTree[line[3]].frequency,
                potAfterCall, betAmount, callAmount)

\* the EV of a line with the bet amount the traversal computes for the bet child
\* (the facing bet it carries to the fold child)
LineEV(n, line) ==
  EVFormula(processedTree[line[1]].frequency, processedTree[line[3]].frequency,
            leakFrameAt(line[1]).pot, leakFrameAt(line[3]).facingBet,
            leakFrameAt(n).facingBet)

\* player p's combos on reaching n: the starting count times p's own
\* frequency at each of p's decisions above n
RECURSIVE CombosAbove(_, _)
CombosAbove(n, p) ==
  IF n = Root THEN (IF p = "OOP" THEN spot.oopCombos ELSE spot.ipCombos)
  ELSE LET a == spot.parent[n]
       IN  IF spot.player[a] = p
           THEN Mul(CombosAbove(a, p), processedTree[a].frequency)
           ELSE CombosAbove(a, p)

(* C6: every float finding of findLeaks has floatEV > 0, and its floatEV   *)
(* is checkFreq * (foldFreq * potAfterCall - (1 - foldFreq) * betAmount)   *)
(* - callAmount for some line call -> check -> bet by the caller -> fold   *)
(* by the other player, with betAmount = potAfterCall * betSizing / 100.   *)
C6_FloatEV ==
  LeaksDone =>
    \A i \in DOMAIN allLeaks :
      allLeaks[i].type = "float" =>
        /\ allLeaks[i].floatEV.def
        /\ Gt(allLeaks[i].floatEV.v, Zero)
        /\ \E line \in FloatLines(allLeaks[i].nodeId) :
              allLeaks[i].floatEV.v = SizedLineEV(allLeaks[i].nodeId, line)

\* the same statement restricted to lines whose bet child has no sizing of 0:
\* there the two bet amounts agree and the finding's floatEV is a line's EV
FloatEVWithoutZeroSizing ==
  LeaksDone =>
    \A i \in DOMAIN allLeaks :
      (/\ allLeaks[i].type = "float"
       /\ \A line \in FloatLines(allLeaks[i].nodeId) : spot.sizing[line[2]] # Some(Zero)) =>
        /\ allLeaks[i].floatEV.def
        /\ Gt(allLeaks[i].floatEV.v, Zero)
        /\ \E line \in FloatLines(allLeaks[i].nodeId) :
              allLeaks[i].floatEV.v = SizedLineEV(allLeaks[i].nodeId, line)

(* C7: for each call node findLeaks emits at most one float finding; it is *)
(* emitted iff some line of the node has EV > 0, it reports the largest EV *)
(* of the node's lines, and it belongs to the opponent of the caller, with *)
(* the opponent's path and the opponent's combos.                          *)
C7_FloatFinding ==
  LeaksDone =>
    \A n \in NodeIds :
      LET found == LeakIdx(n, {"float"})
          positive == {line \in FloatLines(n) : Gt(LineEV(n, line), Zero)}
          opponent == Opp(spot.player[n])
          fr == leakFrameAt(n)
      IN  /\ Cardinality(found) <= 1
          /\ (found # {}) <=> (spot.action[n] = "call" /\ positive # {})
          /\ \A i \in found :
                /\ allLeaks[i].floatEV.def
                /\ \E best \in positive :
                      /\ allLeaks[i].floatEV.v = LineEV(n, best)
                      /\ \A line \in positive : Le(LineEV(n, line), LineEV(n, best))
                /\ allLeaks[i].player = opponent
                /\ allLeaks[i].path =
                     formatPath(IF opponent = "OOP" THEN fr.oopPath ELSE fr.ipPath)
                /\ allLeaks[i].combos = CombosAbove(n, opponent)

\* a float finding at a call with two lines of different positive EV, the
\* better one being the second; the opponent has acted above the call
C7_Witness ==
  /\ LeaksDone
  /\ \E i \in DOMAIN allLeaks :
        /\ allLeaks[i].type = "float"
        /\ allLeaks[i].path # ""
        /\ \E l1, l2 \in FloatLines(allLeaks[i].nodeId) :
              /\ l1[3] < l2[3]
              /\ Gt(LineEV(allLeaks[i].nodeId, l1), Zero)
              /\ Gt(LineEV(allLeaks[i].nodeId, l2), LineEV(allLeaks[i].nodeId, l1))

(* C8: applyProfilesToTree resolves frequency to gtoFrequency at every     *)
(* node for which the acting player's active profile has no entry, and     *)
(* gtoFrequency to 1 at every node for which the acting player's GTO       *)
(* profile has no entry.                                                   *)
C8_FrequencyInheritance ==
  Resolved =>
    \A n \in NodeIds :
      LET p == spot.player[n]
      IN  /\ ~playerProfiles[p][n].present
               => processedTree[n].frequency = processedTree[n].gtoFrequency
          /\ ~gtoProfiles[p][n].present => processedTree[n].gtoFrequency = One

\* a node without an active entry inherits a GTO frequency below 1 while the
\* other player's profiles hold entries under the same id
C8_Witness ==
  /\ Resolved
  /\ \E n \in NodeIds :
        LET p == spot.player[n]
        IN  /\ ~playerProfiles[p][n].present
            /\ gtoProfiles[p][n].present
            /\ Lt(processedTree[n].frequency, One)
            /\ playerProfiles[Opp(p)][n].present
            /\ gtoProfiles[Opp(p)][n].present

(* C9: gtoWeakPercent is undefined whenever the GTO profile has no         *)
(* weakPercent for the node; weakPercent is the active profile's           *)
(* weakPercent when it has one and gtoWeakPercent otherwise; so a node     *)
(* whose active entry sets only frequency never yields a bluff leak.       *)
C9_WeakPercentResolution ==
  /\ Resolved =>
       \A n \in NodeIds :
         LET gtoData == gtoProfiles[spot.player[n]][n]
             playerData == playerProfiles[spot.player[n]][n]
         IN  /\ (~gtoData.present \/ ~gtoData.weakPercent.def)
                  => ~processedTree[n].gtoWeakPercent.def
             /\ (gtoData.present /\ gtoData.weakPercent.def)
                  => processedTree[n].gtoWeakPercent = gtoData.weakPercent
             /\ processedTree[n].weakPercent =
                  (IF playerData.present /\ playerData.weakPercent.def
                   THEN playerData.weakPercent
                   ELSE processedTree[n].gtoWeakPercent)
  /\ LeaksDone =>
       \A n \in NodeIds :
         LET playerData == playerProfiles[spot.player[n]][n]
         IN  (playerData.present /\ ~playerData.weakPercent.def)
               => LeakIdx(n, {"overbluff", "underbluff"}) = {}

\* a bet whose active entry sets only a frequency while GTO has a weakPercent
C9_Witness ==
  /\ LeaksDone
  /\ \E n \in NodeIds :
        LET gtoData == gtoProfiles[spot.player[n]][n]
            playerData == playerProfiles[spot.player[n]][n]
        IN  /\ spot.action[n] \in {"bet", "raise"}
            /\ playerData.present /\ ~playerData.weakPercent.def
            /\ gtoData.present /\ gtoData.weakPercent.def
            /\ playerData.frequency # gtoData.frequency
            /\ processedTree[n].weakPercent = gtoData.weakPercent

\* the product of the frequencies of the proper ancestors of n
RECURSIVE AncestorFrequencies(_)
AncestorFrequencies(n) ==
  IF n = Root THEN One
  ELSE Mul(AncestorFrequencies(spot.parent[n]), processedTree[spot.parent[n]].frequency)

(* C10: in both traversals the reach of a node is the product of the       *)
(* frequencies of its proper ancestors (1 at the root, its own frequency   *)
(* excluded); with every frequency in [0, 1] every reach is in [0, 1] and  *)
(* reach does not increase from a parent to a child.                       *)
C10_Reach ==
  ExploitsDone =>
    /\ \A i \in DOMAIN allLeaks :
          allLeaks[i].reach = AncestorFrequencies(allLeaks[i].nodeId)
    /\ \A i \in DOMAIN allExploits :
          allExploits[i].reach = AncestorFrequencies(allExploits[i].nodeId)
    /\ LET leakFrames == LeakFrames(spot.n)
           exploitFrames == ExploitFrames(spot.n)
           leakReach == [n \in NodeIds |-> leakFrames[n].parentReach]
           exploitReach == [n \in NodeIds |-> exploitFrames[n].parentReach]
       IN  \A n \in NodeIds :
             /\ leakReach[n] = AncestorFrequencies(n)
             /\ exploitReach[n] = AncestorFrequencies(n)
             /\ Le(Zero, leakReach[n]) /\ Le(leakReach[n], One)
             /\ n # Root =>
                  /\ Le(leakReach[n], leakReach[spot.parent[n]])
                  /\ Le(exploitReach[n], exploitReach[spot.parent[n]])

\* a leak and an exploit reported three levels down with a reach strictly
\* between 0 and the reach of the parent
C10_Witness ==
  /\ ExploitsDone
  /\ \E i \in DOMAIN allLeaks : \E j \in DOMAIN allExploits :
        LET n == allLeaks[i].nodeId
        IN  /\ n # Root /\ spot.parent[n] # Root
            /\ Gt(allLeaks[i].reach, Zero)
            /\ Lt(allLeaks[i].reach, AncestorFrequencies(spot.parent[n]))
            /\ Lt(AncestorFrequencies(spot.parent[n]), One)
            /\ Gt(allExploits[j].reach, Zero) /\ Lt(allExploits[j].reach, One)


\* the findings about the acting player: fold and bluff leaks, every exploit
ActingLeakTypes == {"overfold", "underfold", "overbluff", "underbluff"}

(* C11: the combos of a fold, bluff or exploit finding for the acting      *)
(* player P is P's starting combo count times P's own frequency at each of *)
(* P's own ancestor decisions; the other player's decisions never change   *)
(* it and the node's own frequency is not part of the product.             *)
C11_CombosOfAncestors ==
  ExploitsDone =>
    /\ \A i \in DOMAIN allLeaks :
          allLeaks[i].type \in ActingLeakTypes =>
            allLeaks[i].combos = CombosAbove(allLeaks[i].nodeId, allLeaks[i].player)
    /\ \A i \in DOMAIN allExploits :
          allExploits[i].combos = CombosAbove(allExploits[i].nodeId, allExploits[i].player)

(* C11 amended: the product runs over P's own decisions on the path from   *)
(* the root down to and including the node of the finding; the other       *)
(* player's decisions never change it.                                     *)
C11_CombosThroughNode ==
  ExploitsDone =>
    /\ \A i \in DOMAIN allLeaks :
          allLeaks[i].type \in ActingLeakTypes =>
            /\ allLeaks[i].player = spot.player[allLeaks[i].nodeId]
            /\ allLeaks[i].combos =
                 Mul(CombosAbove(allLeaks[i].nodeId, allLeaks[i].player),
                     processedTree[allLeaks[i].nodeId].frequency)
    /\ \A i \in DOMAIN allExploits :
          /\ allExploits[i].player = spot.player[allExploits[i].nodeId]
          /\ allExploits[i].combos =
               Mul(CombosAbove(allExploits[i].nodeId, allExploits[i].player),
                   processedTree[allExploits[i].nodeId].frequency)

\* a fold or bluff leak whose player keeps a part of the range at the node,
\* and an exploit below a decision of the other player taken with a
\* frequency under 1
C11_Witness ==
  /\ ExploitsDone
  /\ \E i \in DOMAIN allLeaks :
        LET n == allLeaks[i].nodeId
            p == allLeaks[i].player
        IN  /\ allLeaks[i].type \in ActingLeakTypes
            /\ Gt(allLeaks[i].combos, Zero)
            /\ Lt(allLeaks[i].combos, CombosAbove(n, p))
  /\ \E j \in DOMAIN allExploits :
        \E a \in Ancestors(allExploits[j].nodeId) :
           /\ spot.player[a] # allExploits[j].player
           /\ Lt(processedTree[a].frequency, One)
           /\ Gt(processedTree[a].frequency, Zero)


\* node a is a bet or raise with weakPercent > gtoWeakPercent, both defined
OverbluffsAt(a) ==
  /\ spot.action[a] \in {"bet", "raise"}
  /\ processedTree[a].weakPercent.def
  /\ processedTree[a].gtoWeakPercent.def
  /\ Gt(processedTree[a].weakPercent.v, processedTree[a].gtoWeakPercent.v)

\* the overbluff flags with which findExploits is called on node n
FlagAt(n) == exploitFrameAt(n).opponentOverbluffs

(* C12: in findExploits the overbluff flag of a player is monotonic down   *)
(* every path: true at a node, it is true at every descendant.  It turns   *)
(* true for player P exactly at the children of a bet or raise of P with   *)
(* weakPercent > gtoWeakPercent, and a node never changes the flag of the  *)
(* player who does not act at it.  Both flags are false at the root.       *)
C12_OverbluffFlags ==
  ExploitsDone =>
    LET frames == ExploitFrames(spot.n)
        flag == [n \in NodeIds |-> frames[n].opponentOverbluffs]
    IN  /\ \A p \in Players : ~flag[Root][p]
        /\ \A n \in NodeIds \ {Root} : \A p \in Players :
              LET a == spot.parent[n]
              IN  /\ flag[a][p] => flag[n][p]
                  /\ (~flag[a][p] /\ flag[n][p]) <=>
                       (~flag[a][p] /\ spot.player[a] = p /\ OverbluffsAt(a))
                  /\ spot.player[a] # p => flag[n][p] = flag[a][p]
        /\ \A d \in NodeIds : \A n \in Ancestors(d) : \A p \in Players :
              flag[n][p] => flag[d][p]

\* the flag of a player raised by an overbluff two levels up survives a bet
\* of the same player that is no overbluff, the other flag staying false
C12_Witness ==
  /\ ExploitsDone
  /\ \E n \in NodeIds \ {Root} :
        LET a == spot.parent[n]
            p == spot.player[a]
        IN  /\ a # Root
            /\ spot.player[spot.parent[a]] = p
            /\ OverbluffsAt(spot.parent[a])
            /\ spot.action[a] \in {"bet", "raise"}
            /\ ~OverbluffsAt(a)
            /\ FlagAt(n)[p]
            /\ ~FlagAt(n)[Opp(p)]


\* the conditions under which the five if statements of findExploits push
MissedCallCond(n) ==
  /\ spot.action[n] = "fold"
  /\ Gt(processedTree[n].frequency, processedTree[n].gtoFrequency)
  /\ OverbluffAbove(n, Opp(spot.player[n]))

ExploitingCallCond(n) ==
  /\ OverbluffAbove(n, Opp(spot.player[n]))
  /\ \/ spot.action[n] = "fold"
          /\ Lt(processedTree[n].frequency, processedTree[n].gtoFrequency)
     \/ spot.action[n] = "call"
          /\ Gt(processedTree[n].frequency, processedTree[n].gtoFrequency)

MissedBetCond(n) ==
  /\ spot.action[n] \in {"bet", "raise"}
  /\ Lt(processedTree[n].frequency, processedTree[n].gtoFrequency)
  /\ ChildOverfolds(n)

ExploitingBetCond(n) ==
  /\ spot.action[n] \in {"bet", "raise"}
  /\ Gt(processedTree[n].frequency, processedTree[n].gtoFrequency)
  /\ ChildOverfolds(n)

(* C13: findExploits emits at most one finding for every node: the         *)
(* conditions of missed-exploit-call, exploiting-call, missed-exploit-bet  *)
(* and exploiting-bet never hold together at a node.                       *)
C13_OneExploitPerNode ==
  ExploitsDone =>
    \A n \in NodeIds :
      /\ Cardinality({i \in DOMAIN allExploits : allExploits[i].nodeId = n}) <= 1
      /\ Cardinality({c \in {"mc", "ec", "mb", "eb"} :
                        \/ c = "mc" /\ MissedCallCond(n)
                        \/ c = "ec" /\ ExploitingCallCond(n)
                        \/ c = "mb" /\ MissedBetCond(n)
                        \/ c = "eb" /\ ExploitingBetCond(n)}) <= 1

\* exploits at two nodes of one tree, one of them a bet into an overfold made
\* after the opponent has overbluffed, the other a call-type exploit
C13_Witness ==
  /\ ExploitsDone
  /\ \E j \in DOMAIN allExploits :
        allExploits[j].type \in {"missed-exploit-call", "exploiting-call"}
  /\ \E i \in DOMAIN allExploits :
        /\ allExploits[i].type \in {"missed-exploit-bet", "exploiting-bet"}
        /\ OverbluffAbove(allExploits[i].nodeId, Opp(allExploits[i].player))


\* a number with a nonzero denominator: not the result of a division by zero
Finite(x) == x[2] > 0

\* the baseline of a leak: gtoWeakPercent for a bluff leak, gtoFrequency for
\* a fold leak, the finding's own gtoFrequency field (0) for a float
LeakBaseline(i) ==
  LET n == allLeaks[i].nodeId
  IN  IF allLeaks[i].type \in {"overbluff", "underbluff"}
      THEN processedTree[n].gtoWeakPercent.v
      ELSE IF allLeaks[i].type \in {"overfold", "underfold"}
      THEN processedTree[n].gtoFrequency
      ELSE allLeaks[i].gtoFrequency

(* C14: for every leak and exploit finding relDiff = diff / baseline when  *)
(* the baseline (gtoFrequency, or gtoWeakPercent for bluff leaks) is > 0   *)
(* and relDiff = 0 when the baseline is 0; with baseline 0 and actual > 0  *)
(* the finding is still emitted with diff = actual; no relDiff is the      *)
(* result of a division by zero.                                           *)
C14_RelDiff ==
  ExploitsDone =>
    /\ \A i \in DOMAIN allLeaks :
          /\ Finite(allLeaks[i].relDiff)
          /\ Gt(LeakBaseline(i), Zero) =>
                Mul(allLeaks[i].relDiff, LeakBaseline(i)) = allLeaks[i].diff
          /\ LeakBaseline(i) = Zero => allLeaks[i].relDiff = Zero
    /\ \A i \in DOMAIN allExploits :
          LET g == processedTree[allExploits[i].nodeId].gtoFrequency
          IN  /\ Finite(allExploits[i].relDiff)
              /\ Gt(g, Zero) => Mul(allExploits[i].relDiff, g) = allExploits[i].diff
              /\ g = Zero => allExploits[i].relDiff = Zero
    /\ \A n \in NodeIds :
          LET f == processedTree[n].frequency
              g == processedTree[n].gtoFrequency
              w == processedTree[n].weakPercent
              gw == processedTree[n].gtoWeakPercent
          IN  /\ (spot.action[n] = "fold" /\ g = Zero /\ Gt(f, Zero)) =>
                   \E i \in LeakIdx(n, {"overfold"}) : allLeaks[i].diff = f
              /\ (/\ spot.action[n] \in {"bet", "raise"} /\ w.def /\ gw.def
                  /\ gw.v = Zero /\ Gt(w.v, Zero)) =>
                   \E i \in LeakIdx(n, {"overbluff"}) : allLeaks[i].diff = w.v
              /\ (g = Zero /\ Gt(f, Zero) /\ MissedCallCond(n)) =>
                   \E i \in ExploitIdx(n, {"missed-exploit-call"}) : allExploits[i].diff = f
              /\ (g = Zero /\ Gt(f, Zero) /\ ExploitingCallCond(n)) =>
                   \E i \in ExploitIdx(n, {"exploiting-call"}) : allExploits[i].diff = f
              /\ (g = Zero /\ Gt(f, Zero) /\ ExploitingBetCond(n)) =>
                   \E i \in ExploitIdx(n, {"exploiting-bet"}) : allExploits[i].diff = f

\* an overfold and an exploit whose GTO frequency is 0, reported with
\* relDiff 0 and diff = frequency, beside a leak with a positive relDiff
C14_Witness ==
  /\ ExploitsDone
  /\ \E i \in DOMAIN allLeaks :
        /\ allLeaks[i].type = "overfold"
        /\ allLeaks[i].gtoFrequency = Zero
        /\ allLeaks[i].relDiff = Zero
        /\ allLeaks[i].diff = allLeaks[i].frequency
  /\ \E j \in DOMAIN allExploits :
        /\ allExploits[j].gtoFrequency = Zero
        /\ allExploits[j].relDiff = Zero
        /\ Gt(allExploits[j].diff, Zero)
  /\ \E k \in DOMAIN allLeaks : Gt(allLeaks[k].relDiff, Zero)


\* calculatePot as the traversal applies it at node n: its arguments are the
\* pot and facing bet of the call's frame and the node's action and sizing
PotBefore(n) == leakFrameAt(n).pot
FacingBetBefore(n) == leakFrameAt(n).facingBet
Advance(n) == calculatePot(spot.action[n], PotBefore(n), FacingBetBefore(n), spot.sizing[n])

\* sizing ?? dflt : only an absent sizing takes the default
SizingOr(n, dflt) == IF spot.sizing[n].def THEN spot.sizing[n].v ELSE dflt

(* C15: for a bet calculatePot uses the node's sizing s whenever a sizing  *)
(* is present (every s >= 0) and 50 only when it is absent:                *)
(* amount = potBefore * s / 100, potAfter = potBefore + amount,            *)
(* facingBetAfter = amount, whatever the facing bet before.                *)
C15_BetPot ==
  LeaksDone =>
    \A n \in NodeIds :
      spot.action[n] = "bet" =>
        LET amount == Div(Mul(PotBefore(n), SizingOr(n, Num(50))), Num(100))
        IN  /\ Advance(n).newPot = Add(PotBefore(n), amount)
            /\ Advance(n).newFacingBet = amount

\* the same for every bet whose sizing is not 0
BetPotWithoutZeroSizing ==
  LeaksDone =>
    \A n \in NodeIds :
      (spot.action[n] = "bet" /\ spot.sizing[n] # Some(Zero)) =>
        LET amount == Div(Mul(PotBefore(n), SizingOr(n, Num(50))), Num(100))
        IN  /\ Advance(n).newPot = Add(PotBefore(n), amount)
            /\ Advance(n).newFacingBet = amount

(* C16: for a raise calculatePot computes total = s * facingBetBefore with *)
(* s the node's sizing when present and 3 only when absent,                *)
(* potAfter = potBefore + total, facingBetAfter = total - facingBetBefore; *)
(* with facingBetBefore = 0 the pot is unchanged and facingBetAfter = 0.   *)
C16_RaisePot ==
  LeaksDone =>
    \A n \in NodeIds :
      spot.action[n] = "raise" =>
        LET total == Mul(SizingOr(n, Num(3)), FacingBetBefore(n))
        IN  /\ Advance(n).newPot = Add(PotBefore(n), total)
            /\ Advance(n).newFacingBet = Sub(total, FacingBetBefore(n))
            /\ FacingBetBefore(n) = Zero =>
                 /\ Advance(n).newPot = PotBefore(n)
                 /\ Advance(n).newFacingBet = Zero

\* the same for every raise whose sizing is not 0
RaisePotWithoutZeroSizing ==
  LeaksDone =>
    \A n \in NodeIds :
      (spot.action[n] = "raise" /\ spot.sizing[n] # Some(Zero)) =>
        LET total == Mul(SizingOr(n, Num(3)), FacingBetBefore(n))
        IN  /\ Advance(n).newPot = Add(PotBefore(n), total)
            /\ Advance(n).newFacingBet = Sub(total, FacingBetBefore(n))
            /\ FacingBetBefore(n) = Zero =>
                 /\ Advance(n).newPot = PotBefore(n)
                 /\ Advance(n).newFacingBet = Zero

(* C17: for a call calculatePot returns potAfter = potBefore +             *)
(* facingBetBefore and facingBetAfter = 0; for a check or a fold it        *)
(* returns the pot unchanged and facingBetAfter = 0; the sizing of the     *)
(* node plays no part in any of the three.                                 *)
C17_CallCheckFoldPot ==
  LeaksDone =>
    LET before == LeakFrames(spot.n)
        exploitFrames == ExploitFrames(spot.n)
        after == [n \in NodeIds |->
                    calculatePot(spot.action[n], before[n].pot, before[n].facingBet,
                                 spot.sizing[n])]
    IN  \A n \in NodeIds :
          /\ spot.action[n] = "call" =>
               /\ after[n].newPot = Add(before[n].pot, before[n].facingBet)
               /\ after[n].newFacingBet = Zero
          /\ spot.action[n] \in {"check", "fold"} =>
               /\ after[n].newPot = before[n].pot
               /\ after[n].newFacingBet = Zero
          /\ \A c \in NodeIds :
               spot.parent[c] = n /\ spot.action[n] \in {"call", "check", "fold"} =>
                 /\ before[c].facingBet = Zero
                 /\ exploitFrames[c].facingBet = Zero
                 /\ before[c].pot =
                      (IF spot.action[n] = "call"
                       THEN Add(before[n].pot, before[n].facingBet) ELSE before[n].pot)

\* a call that carries a sizing and a fold, both facing a positive bet
C17_Witness ==
  /\ LeaksDone
  /\ \E n, m \in NodeIds :
        /\ spot.action[n] = "call" /\ spot.sizing[n].def
        /\ Gt(FacingBetBefore(n), Zero)
        /\ spot.action[m] = "fold"
        /\ Gt(FacingBetBefore(m), Zero)


\* the nodes from the root down to n
RECURSIVE PathTo(_)
PathTo(n) == IF n = Root THEN <<Root>> ELSE Append(PathTo(spot.parent[n]), n)

\* a comes before b in pre-order: a is a proper ancestor of b, or the two
\* paths part at siblings of which a's is declared first
PreOrderBefore(a, b) ==
  \/ a \in Ancestors(b)
  \/ /\ a # b
     /\ b \notin Ancestors(a)
     /\ LET pa == PathTo(a)
            pb == PathTo(b)
            k == CHOOSE k \in 1..Len(pa) :
                   /\ k <= Len(pb) /\ pa[k] # pb[k]
                   /\ \A j \in 1..(k - 1) : pa[j] = pb[j]
        IN  pa[k] < pb[k]

(* C18: the lists returned by findLeaks and findExploits are in pre-order: *)
(* a node's findings precede those of all its descendants, and all         *)
(* findings of an earlier sibling's subtree precede all findings of a      *)
(* later sibling's subtree, siblings taken in declared child order.        *)
C18_PreOrder ==
  ExploitsDone =>
    /\ \A i, j \in DOMAIN allLeaks :
          i < j => \/ allLeaks[i].nodeId = allLeaks[j].nodeId
                   \/ PreOrderBefore(allLeaks[i].nodeId, allLeaks[j].nodeId)
    /\ \A i, j \in DOMAIN allExploits :
          i < j => \/ allExploits[i].nodeId = allExploits[j].nodeId
                   \/ PreOrderBefore(allExploits[i].nodeId, allExploits[j].nodeId)

\* leaks at a node, at its child and at its later sibling, the child having
\* the larger number and still coming first; exploits likewise
C18_Witness ==
  /\ ExploitsDone
  /\ \E i, j, k \in DOMAIN allLeaks :
        /\ i < j /\ j < k
        /\ spot.parent[allLeaks[j].nodeId] = allLeaks[i].nodeId
        /\ spot.parent[allLeaks[k].nodeId] = spot.parent[allLeaks[i].nodeId]
        /\ allLeaks[k].nodeId < allLeaks[j].nodeId
  /\ \E i, j, k \in DOMAIN allExploits :
        /\ i < j /\ j < k
        /\ spot.parent[allExploits[j].nodeId] = allExploits[i].nodeId
        /\ spot.parent[allExploits[k].nodeId] = spot.parent[allExploits[i].nodeId]
        /\ allExploits[k].nodeId < allExploits[j].nodeId


\* the bet or raise the classifier looks at for node n: n itself when it is a
\* bet or raise, its parent when n is a fold or call under a bet or raise
ResolvedBet(n) ==
  IF spot.action[n] \in {"bet", "raise"} THEN n
  ELSE IF /\ spot.action[n] \in {"fold", "call"} /\ n # Root
          /\ spot.action[spot.parent[n]] \in {"bet", "raise"}
  THEN spot.parent[n]
  ELSE NoNode

\* the nodes with a resolved bet or raise that has a parent
Classified == {n \in NodeIds : ResolvedBet(n) \notin {NoNode, Root}}

\* the bets and raises above b, and whether the nearest of them is by IP
AggressorsAbove(b) == {a \in Ancestors(b) : spot.action[a] \in {"bet", "raise"}}
NearestAggressorIsIP(b) ==
  \E a \in AggressorsAbove(b) :
     /\ spot.player[a] = "IP"
     /\ \A a2 \in AggressorsAbove(b) : a \notin Ancestors(a2)

StabShape(b) ==
  /\ spot.player[b] = "IP"
  /\ spot.action[spot.parent[b]] = "check"
  /\ spot.player[spot.parent[b]] = "OOP"

ProbeShape(b) ==
  /\ spot.player[b] = "OOP"
  /\ spot.action[spot.parent[b]] = "check"
  /\ spot.player[spot.parent[b]] = "IP"

DonkShape(b) ==
  /\ spot.action[spot.parent[b]] = "call"
  /\ spot.player[spot.parent[b]] = spot.player[b]

(* C19: for a resolved bet or raise getActionPattern returns stab exactly  *)
(* when the bet is by IP, its parent is a check by OOP and the nearest bet *)
(* or raise above that check is not by IP (it is by OOP or there is        *)
(* none); when that nearest aggressor is IP the result is null.            *)
C19_Stab ==
  MapsDone =>
    \A n \in Classified :
      LET b == ResolvedBet(n)
      IN  /\ getActionPattern(n) = "stab" <=> (StabShape(b) /\ ~NearestAggressorIsIP(b))
          /\ (StabShape(b) /\ NearestAggressorIsIP(b)) => getActionPattern(n) = NoPattern

\* a stab whose nearest earlier aggressor is OOP while an older one is IP,
\* classified from the fold that answers it
C19_Witness ==
  /\ MapsDone
  /\ \E n \in Classified :
        LET b == ResolvedBet(n)
        IN  /\ b # n
            /\ getActionPattern(n) = "stab"
            /\ \E a, a2 \in AggressorsAbove(b) :
                  /\ spot.player[a] = "OOP" /\ spot.player[a2] = "IP"
                  /\ a2 \in Ancestors(a)

(* C20: getActionPattern returns probe exactly when the resolved bet or    *)
(* raise is by OOP and its parent is a check by IP, and donk exactly when  *)
(* its parent is a call by the bettor; stab, probe and donk exclude one    *)
(* another and every other configuration returns null.                     *)
C20_ProbeDonk ==
  MapsDone =>
    /\ \A n \in Classified :
          LET b == ResolvedBet(n)
          IN  /\ getActionPattern(n) = "probe" <=> ProbeShape(b)
              /\ getActionPattern(n) = "donk" <=> DonkShape(b)
              /\ ~(ProbeShape(b) /\ DonkShape(b))
              /\ ~(StabShape(b) /\ (ProbeShape(b) \/ DonkShape(b)))
              /\ getActionPattern(n) \in {"stab", "probe", "donk", NoPattern}
              /\ ~(StabShape(b) \/ ProbeShape(b) \/ DonkShape(b))
                   => getActionPattern(n) = NoPattern
    /\ \A n \in NodeIds \ Classified : getActionPattern(n) = NoPattern

\* one line holding a probe and a donk, the donk classified from the fold
\* that answers it
C20_Witness ==
  /\ MapsDone
  /\ \E n, m \in Classified :
        /\ ResolvedBet(n) # n
        /\ getActionPattern(n) = "donk"
        /\ getActionPattern(m) = "probe"


-----------------------------------------------------------------------------
\* the nodes of the root path of n on which player p acted, in path order,
\* the root left out when it is hidden
RECURSIVE LineNodes(_, _)
LineNodes(n, p) ==
  LET above == IF n = Root THEN <<>> ELSE LineNodes(spot.parent[n], p)
  IN  IF spot.player[n] = p /\ ~(n = Root /\ hideRootFromLine)
      THEN Append(above, n) ELSE above

\* the label of node a, from the pot and the facing bet its call receives
LabelAt(frames, a) == nodeDisplayLabel(Node(a), frames[a].pot, frames[a].facingBet)

\* the <<street, label>> pairs of a path, segment after segment
SegmentPairs(path) ==
  FlattenSeq([i \in 1..Len(path) |->
                [j \in 1..Len(path[i].actions) |-> <<path[i].street, path[i].actions[j]>>]])

\* the text of the first k nodes of a line: the labels one after the other,
\* the arrow wherever the street changes from one node of the line to the next
RECURSIVE LineText(_, _, _)
LineText(line, frames, k) ==
  IF k = 0 THEN ""
  ELSE LineText(line, frames, k - 1)
       \o (IF k > 1 /\ spot.street[line[k]] # spot.street[line[k - 1]] THEN " → " ELSE "")
       \o LabelAt(frames, line[k])

(* C21: addToPath appends the label to the last segment when that segment's *)
(* street is the node's street and otherwise starts a new segment, and the  *)
(* path handed to a sibling is not affected; formatPath writes each         *)
(* segment's labels without separator and joins the segments with an arrow. *)
(* So the path of each player after any node holds exactly one label per    *)
(* node of the root path on which that player acted (the hidden root left   *)
(* out), in path order, grouped into segments of differing streets, and     *)
(* every finding's path is the text of its player's line.                   *)
C21_PlayerLines ==
  Traversed =>
    LET lf == LeakFrames(spot.n)
    IN  /\ \A n \in NodeIds :
              LET L == nodeLocals(n, lf[n])
              IN  \A p \in Players :
                    LET path == IF p = "OOP" THEN L.newOopPath ELSE L.newIpPath
                        line == LineNodes(n, p)
                    IN  /\ SegmentPairs(path)
                             = [i \in 1..Len(line) |->
                                  <<spot.street[line[i]], LabelAt(lf, line[i])>>]
                        /\ \A i \in 1..Len(path) : path[i].actions # <<>>
                        /\ \A i \in 1..(Len(path) - 1) : path[i].street # path[i + 1].street
        /\ \A i \in DOMAIN allLeaks :
              LET line == LineNodes(allLeaks[i].nodeId, allLeaks[i].player)
              IN  allLeaks[i].path = LineText(line, lf, Len(line))
        /\ \A i \in DOMAIN allExploits :
              LET line == LineNodes(allExploits[i].nodeId, allExploits[i].player)
              IN  allExploits[i].path = LineText(line, lf, Len(line))

\* a finding of the player of a hidden root whose line holds three nodes,
\* two on one street and the next on another
C21_Witness ==
  /\ Traversed
  /\ hideRootFromLine
  /\ \E i \in DOMAIN allLeaks :
        LET line == LineNodes(allLeaks[i].nodeId, allLeaks[i].player)
        IN  /\ allLeaks[i].player = spot.player[Root]
            /\ Len(line) >= 3
            /\ spot.street[line[1]] = spot.street[line[2]]
            /\ spot.street[line[2]] # spot.street[line[3]]

-----------------------------------------------------------------------------
\* the tree root (OOP check) -> A (IP bet, sizing 50) -> B (OOP fold) with an
\* initial pot of 10, no weak percentage anywhere, B folding 1/2 against 1/5
ExampleTree ==
  /\ spot.n = 3
  /\ spot.parent = <<0, 1, 2>>
  /\ spot.action = <<"check", "bet", "fold">>
  /\ spot.player = <<"OOP", "IP", "OOP">>
  /\ spot.sizing[2] = Some(Num(50))
  /\ spot.potSize = Num(10)
  /\ \A n \in NodeIds : ~Node(n).weakPercent.def /\ ~Node(n).gtoWeakPercent.def
  /\ Node(3).frequency = Rat(1, 2)
  /\ Node(3).gtoFrequency = Rat(1, 5)

-----------------------------------------------------------------------------
\* what the action of node n puts into the pot, fr being the arguments of its
\* call: the bet its children face, the raise total, the bet called, nothing
ActionAmount(n, fr) ==
  LET cp == calculatePot(spot.action[n], fr.pot, fr.facingBet, spot.sizing[n])
  IN  CASE spot.action[n] = "bet" -> cp.newFacingBet
        [] spot.action[n] = "raise" -> Add(cp.newFacingBet, fr.facingBet)
        [] spot.action[n] = "call" -> fr.facingBet
        [] OTHER -> Zero

\* finding f of a traversal with the given frames reports the pot after its
\* node's action, which is the pot the node's children receive, and the
\* node's street
PotAfterOwnAction(f, frames) ==
  LET n == f.nodeId
  IN  /\ f.potSize = Add(frames[n].pot, ActionAmount(n, frames[n]))
      /\ \A c \in NodeIds : spot.parent[c] = n => frames[c].pot = f.potSize
      /\ f.street = spot.street[n]

(* C23: every finding's potSize is the pot after the node's own action: a   *)
(* bluff or bet-exploit finding at a bet or raise node includes that bet or *)
(* raise, a float or call-exploit finding at a call node includes the       *)
(* called amount; the finding's street is the node's own street.            *)
C23_PotAfterAction ==
  Traversed =>
    LET lf == LeakFrames(spot.n)
        ef == ExploitFrames(spot.n)
    IN  /\ \A i \in DOMAIN allLeaks : PotAfterOwnAction(allLeaks[i], lf)
        /\ \A i \in DOMAIN allExploits : PotAfterOwnAction(allExploits[i], ef)

\* a bluff leak at a bet or raise and an exploit at a call, each reporting a
\* pot larger than the one its node received
C23_Witness ==
  /\ Traversed
  /\ \E i \in DOMAIN allLeaks :
        /\ allLeaks[i].type \in {"overbluff", "underbluff"}
        /\ Gt(allLeaks[i].potSize, PotBefore(allLeaks[i].nodeId))
  /\ \E i \in DOMAIN allExploits :
        /\ spot.action[allExploits[i].nodeId] = "call"
        /\ Gt(allExploits[i].potSize, PotBefore(allExploits[i].nodeId))

-----------------------------------------------------------------------------
\* the nearest enclosing bet or raise of n when every node that is not a bet
\* or raise is given its parent bet or raise
EnclosingBet(n) ==
  IF spot.action[n] \in {"bet", "raise"} THEN n
  ELSE IF n # Root /\ spot.action[spot.parent[n]] \in {"bet", "raise"}
  THEN spot.parent[n]
  ELSE NoNode

\* an id no node of the tree carries
UnknownId == spot.n + 1

\* a check whose parent is a bet or raise that is itself classified
CheckUnderPattern(n) ==
  /\ spot.action[n] = "check"
  /\ n # Root
  /\ spot.action[spot.parent[n]] \in {"bet", "raise"}
  /\ getActionPattern(spot.parent[n]) # NoPattern

\* the claim as worded: every node that is not a bet or raise, a check
\* included, is classified as its parent bet or raise
C24_NearestBetOfAnyNode ==
  MapsDone =>
    /\ \A n \in NodeIds :
          LET b == EnclosingBet(n)
          IN  IF b \in {NoNode, Root} THEN getActionPattern(n) = NoPattern
              ELSE getActionPattern(n) = getActionPattern(b)
    /\ getActionPattern(UnknownId) = NoPattern

(* C24: getActionPattern classifies the nearest enclosing bet or raise: the *)
(* node itself if it is a bet or raise, otherwise its parent whenever the   *)
(* node is a fold or call and the parent is a bet or raise (a check node    *)
(* resolves to none), otherwise none; it returns none for an unknown id and *)
(* whenever the resolved bet or raise is the root.                          *)
C24_NearestBet ==
  MapsDone =>
    /\ \A n \in NodeIds :
          LET b == ResolvedBet(n)
          IN  IF b \in {NoNode, Root} THEN getActionPattern(n) = NoPattern
              ELSE getActionPattern(n) = getActionPattern(b)
    /\ \A n \in NodeIds : CheckUnderPattern(n) => getActionPattern(n) = NoPattern
    /\ getActionPattern(UnknownId) = NoPattern

\* a check under a classified bet, and a fold classified as the bet above it
C24_Witness ==
  /\ MapsDone
  /\ \E n \in NodeIds : CheckUnderPattern(n)
  /\ \E n \in NodeIds :
        /\ spot.action[n] = "fold"
        /\ ResolvedBet(n) \notin {NoNode, Root}
        /\ getActionPattern(n) # NoPattern

-----------------------------------------------------------------------------
\* the implied pot odds of a call, in whole percent
CallOdds(pot, facingBet) ==
  MathRound(Mul(Div(facingBet, Sub(pot, facingBet)), Num(100)))

\* the label node n has added to its player's path (n not a hidden root)
LabelAdded(n, frames) ==
  LET L == nodeLocals(n, frames[n])
      path == IF spot.player[n] = "OOP" THEN L.newOopPath ELSE L.newIpPath
      last == path[Len(path)]
  IN  last.actions[Len(last.actions)]

Labelled == {n \in NodeIds : ~(n = Root /\ hideRootFromLine)}

\* the labels of bets and raises with a sizing
SizedLabels(frames) ==
  \A n \in Labelled :
    /\ (spot.action[n] = "bet" /\ spot.sizing[n].def)
         => LabelAdded(n, frames) = "B" \o NumStr(spot.sizing[n].v)
    /\ (spot.action[n] = "raise" /\ spot.sizing[n].def)
         => LabelAdded(n, frames) = "R" \o NumStr(spot.sizing[n].v) \o "X"

\* the claim as worded: a call carries its pot odds whenever pot > facingBet
C25_CallLabelByPotAlone ==
  Traversed =>
    LET lf == LeakFrames(spot.n)
    IN  /\ \A n \in Labelled :
              spot.action[n] = "call" =>
                LabelAdded(n, lf)
                  = IF Gt(lf[n].pot, lf[n].facingBet)
                    THEN "C" \o NumStr(CallOdds(lf[n].pot, lf[n].facingBet))
                    ELSE "C"
        /\ SizedLabels(lf)

(* C25: a call node's path label is 'C' followed by                         *)
(* round(facingBet / (pot - facingBet) * 100), pot and facingBet being the  *)
(* values before the call, whenever facingBet > 0 and pot > facingBet, and  *)
(* plain 'C' otherwise; a bet label is 'B' + sizing and a raise label is    *)
(* 'R' + sizing + 'X' when sizing is present.                               *)
C25_Labels ==
  Traversed =>
    LET lf == LeakFrames(spot.n)
    IN  /\ \A n \in Labelled :
              spot.action[n] = "call" =>
                LabelAdded(n, lf)
                  = IF Gt(lf[n].facingBet, Zero) /\ Gt(lf[n].pot, lf[n].facingBet)
                    THEN "C" \o NumStr(CallOdds(lf[n].pot, lf[n].facingBet))
                    ELSE "C"
        /\ SizedLabels(lf)

\* a call of a raise that carries a sizing, with pot odds that had to be rounded
C25_Witness ==
  /\ Traversed
  /\ \E n \in Labelled :
        /\ spot.action[n] = "call"
        /\ Gt(PotBefore(n), FacingBetBefore(n))
        /\ Gt(FacingBetBefore(n), Zero)
        /\ Mul(CallOdds(PotBefore(n), FacingBetBefore(n)),
               Sub(PotBefore(n), FacingBetBefore(n)))
             # Mul(FacingBetBefore(n), Num(100))
        /\ spot.action[spot.parent[n]] = "raise"
        /\ spot.sizing[spot.parent[n]].def

-----------------------------------------------------------------------------
\* the number of edges from the root to n
Depth(n) == Cardinality(Ancestors(n))

(* C26: on a tree with unique non-empty ids every getActionPattern query,   *)
(* the ancestor walk of getLastAggressor included, looks at no more than    *)
(* depth(node) + 1 nodes, all of them on the node's root path, the walk     *)
(* climbing one parent at a time; building the maps leaves the tree as it   *)
(* was, the node map giving every id its node and the parent map giving the *)
(* root null and every other node its parent.                               *)
C26_BoundedQueries ==
  MapsDone =>
    /\ \A n \in NodeIds :
          LET walk == getLastAggressorWalk(n)
              visits == getActionPatternVisits(n)
          IN  /\ Len(walk) <= Depth(n) + 1
              /\ walk # <<>> /\ walk[1] = n
              /\ \A i \in 1..(Len(walk) - 1) : walk[i + 1] = spot.parent[walk[i]]
              /\ visits \subseteq (Ancestors(n) \cup {n})
              /\ Cardinality(visits) <= Depth(n) + 1
    /\ getActionPatternVisits(UnknownId) = {}
    /\ DOMAIN nodeMap = NodeIds
    /\ DOMAIN parentMap = NodeIds
    /\ \A n \in NodeIds :
          /\ nodeMap[n] = n
          /\ parentMap[n] = IF n = Root THEN NoNode ELSE spot.parent[n]
    /\ processedTree = applyProfilesToTree

\* a query four levels down whose walk climbs to the root: it looks at
\* every node of the root path
C26_Witness ==
  /\ MapsDone
  /\ \E n \in NodeIds :
        /\ Depth(n) >= 4
        /\ Cardinality(getActionPatternVisits(n)) = Depth(n) + 1
        /\ Len(getLastAggressorWalk(spot.parent[spot.parent[n]])) >= 3

-----------------------------------------------------------------------------
\* each player's active profile is that player's GTO profile
PlaysGto == playerProfiles = gtoProfiles

(* C27: when each player's active profile is that player's GTO profile,     *)
(* every node has frequency = gtoFrequency and weakPercent =                *)
(* gtoWeakPercent, findExploits returns an empty list and findLeaks returns *)
(* no overfold, underfold, overbluff or underbluff: float findings are the  *)
(* only ones left.                                                          *)
C27_GtoProfile ==
  (ExploitsDone /\ PlaysGto) =>
    /\ \A n \in NodeIds :
          /\ Node(n).frequency = Node(n).gtoFrequency
          /\ Node(n).weakPercent = Node(n).gtoWeakPercent
    /\ allExploits = <<>>
    /\ \A i \in DOMAIN allLeaks : allLeaks[i].type = "float"

\* a player on its GTO profile, with a fold frequency and a weak percentage
\* in the profile, against whom a float is still found
C27_Witness ==
  /\ ExploitsDone
  /\ PlaysGto
  /\ \E i \in DOMAIN allLeaks : allLeaks[i].type = "float"
  /\ \E n \in NodeIds :
        spot.action[n] = "fold" /\ playerProfiles[spot.player[n]][n].present
  /\ \E n \in NodeIds :
        /\ spot.action[n] = "bet"
        /\ playerProfiles[spot.player[n]][n].present
        /\ playerProfiles[spot.player[n]][n].weakPercent.def

-----------------------------------------------------------------------------
\* the exploits found at fold nodes
FoldExploits == {i \in DOMAIN allExploits : spot.action[allExploits[i].nodeId] = "fold"}

\* the fold leak that goes with an exploit of the given type at a fold
FoldLeakType(type) == IF type = "missed-exploit-call" THEN "overfold" ELSE "underfold"

(* C28: every exploit that findExploits emits at a fold node is a           *)
(* missed-exploit-call or an exploiting-call, and findLeaks run on the same *)
(* tree, pot, combos and hideRootFromLine emits a fold leak at the same     *)
(* node (an overfold, respectively an underfold) with the same player,      *)
(* diff, relDiff, reach, street, potSize, combos and path.                  *)
C28_FoldExploitHasLeak ==
  ExploitsDone =>
    \A i \in FoldExploits :
      LET e == allExploits[i]
      IN  /\ e.type \in {"missed-exploit-call", "exploiting-call"}
          /\ \E j \in DOMAIN allLeaks :
                LET l == allLeaks[j]
                IN  /\ l.nodeId = e.nodeId
                    /\ l.type = FoldLeakType(e.type)
                    /\ l.player = e.player
                    /\ l.diff = e.diff
                    /\ l.relDiff = e.relDiff
                    /\ l.reach = e.reach
                    /\ l.street = e.street
                    /\ l.potSize = e.potSize
                    /\ l.combos = e.combos
                    /\ l.path = e.path

\* a missed call and an exploiting call at two folds of one tree, below
\* nodes that have changed the reach, the pot and the path
C28_Witness ==
  /\ ExploitsDone
  /\ \E i, j \in FoldExploits :
        /\ allExploits[i].type = "missed-exploit-call"
        /\ allExploits[j].type = "exploiting-call"
        /\ Gt(allExploits[j].potSize, spot.potSize)
        /\ Lt(allExploits[j].reach, One)

-----------------------------------------------------------------------------
(* C29: findLeaks emits at most one finding per node, the fold-leak, the    *)
(* bluff-leak and the float checks applying to disjoint actions (fold; bet  *)
(* or raise; call); the leak list is never longer than the tree has nodes;  *)
(* no finding is emitted at a check node.                                   *)
C29_OneLeakPerNode ==
  LeaksDone =>
    /\ \A i, j \in DOMAIN allLeaks : allLeaks[i].nodeId = allLeaks[j].nodeId => i = j
    /\ Len(allLeaks) <= spot.n
    /\ \A i \in DOMAIN allLeaks :
          LET a == spot.action[allLeaks[i].nodeId]
          IN  /\ a # "check"
              /\ allLeaks[i].type \in {"overfold", "underfold"} <=> a = "fold"
              /\ allLeaks[i].type \in {"overbluff", "underbluff"} <=> a \in {"bet", "raise"}
              /\ allLeaks[i].type = "float" <=> a = "call"

\* a fold leak, a bluff leak and a float in one list, beside a check played
\* off its GTO frequency that has no finding
C29_Witness ==
  /\ LeaksDone
  /\ \E i, j, k \in DOMAIN allLeaks :
        /\ allLeaks[i].type \in {"overbluff", "underbluff"}
        /\ allLeaks[j].type = "float"
        /\ allLeaks[k].type \in {"overfold", "underfold"}
  /\ \E n \in NodeIds :
        /\ spot.action[n] = "check"
        /\ Node(n).frequency # Node(n).gtoFrequency

-----------------------------------------------------------------------------
\* the initial pot is >= 0, every bet sizing >= 0, every raise sizing >= 1
SizingsInRange ==
  /\ ~Lt(spot.potSize, Zero)
  /\ \A n \in NodeIds :
        /\ (spot.action[n] = "bet" /\ spot.sizing[n].def) => ~Lt(spot.sizing[n].v, Zero)
        /\ (spot.action[n] = "raise" /\ spot.sizing[n].def) => ~Lt(spot.sizing[n].v, One)

\* in a traversal with the given frames no node faces a negative bet, no
\* child receives a smaller pot than its parent did, and the children of a
\* check, call or fold face no bet
PotCarriedForward(frames) ==
  \A n \in NodeIds :
    /\ ~Lt(frames[n].facingBet, Zero)
    /\ n # Root =>
          /\ Le(frames[spot.parent[n]].pot, frames[n].pot)
          /\ spot.action[spot.parent[n]] \in {"check", "call", "fold"}
                => frames[n].facingBet = Zero

(* C30: on every tree whose initial pot is >= 0, whose bet sizings are >= 0 *)
(* and whose raise sizings are >= 1, the facing bet carried to every node   *)
(* is >= 0 and the pot never decreases from a node to any of its children;  *)
(* the facing bet carried to the children of a check, call or fold is 0.    *)
C30_PotMonotone ==
  (Traversed /\ SizingsInRange) =>
    /\ PotCarriedForward(LeakFrames(spot.n))
    /\ PotCarriedForward(ExploitFrames(spot.n))

\* a raise with a sizing over a bet, answered by a call or fold that has a
\* child of its own
C30_Witness ==
  /\ Traversed
  /\ SizingsInRange
  /\ \E n, c \in NodeIds :
        /\ spot.parent[c] = n
        /\ spot.action[n] \in {"call", "fold"}
        /\ Gt(FacingBetBefore(n), Zero)
        /\ spot.action[spot.parent[n]] = "raise"
        /\ spot.sizing[spot.parent[n]].def

====
